---- MODULE Spec2Model ----
(***************************************************************************)
(* Thread Music Generator: the scheduling-to-music engine.                 *)
(*                                                                         *)
(* One rhythm worker (drumThreadFunction) and threadCount-1 melodic        *)
(* workers (melodicThreadFunction) sample the wall clock (and, for the     *)
(* melodic workers, the process CPU clock), and append MIDI events to the  *)
(* shared MidiFile under midi_mutex.  main() spawns the workers, joins     *)
(* them and sorts the tracks.                                              *)
(*                                                                         *)
(* Time is counted in milliseconds, the resolution of the workers' clock   *)
(* reads (duration_cast<milliseconds>).  Doubles are modelled by exact     *)
(* rational arithmetic on those integers, corrected where the IEEE         *)
(* product falls one below the exact value (FpLowMs).                      *)
(***************************************************************************)
EXTENDS Integers, Sequences, FiniteSets, TLC

----------------------------------------------------------------------------
(* Program constants (include/Constants.h) *)

TPQ == 480
TEMPO == 180
BEATS_PER_BAR == 4
THREAD_SLEEP_MS == 1
KICK == 36
SNARE == 38
CLOSED_HAT == 42
OPEN_HAT == 46
CRASH == 49
\* SCHEDULE_THRESHOLD = 0.001, kept as its reciprocal
SCHEDULE_THRESHOLD_INV == 1000
\* the percussion channel the drum worker writes to
DRUM_CHANNEL == 9
\* velocity of the crash cymbal at a phase boundary
CRASH_VELOCITY == 110

----------------------------------------------------------------------------
(* Bounds of the model *)

MaxDuration == 2
MaxPhases == 2

\* wall-clock advance between two instants at which workers can be scheduled
TickSteps == {667}

\* the threads of the model: the drum thread 0 and one melodic thread
Workers == {0, 1}
Phases == 0 .. (MaxPhases - 1)
NoOne == -1

\* the phrases the content generator hands out in the model, as
\* (scale offset, velocity, duration) above the register's low note and the
\* phase's root note
NoteA == [pitch |-> 0, velocity |-> 80, duration |-> TPQ \div 2]
NoteB == [pitch |-> 4, velocity |-> 70, duration |-> TPQ]

\* phrase shapes: no notes, one note, two notes, and a first phase without
\* notes followed by phases of one note
Shapes == 1..4
ShapeNotes(shape, phase) ==
    CASE shape = 1 -> << >>
      [] shape = 2 -> << NoteA >>
      [] shape = 3 -> << NoteA, NoteB >>
      [] OTHER     -> IF phase = 0 THEN << >> ELSE << NoteB >>

----------------------------------------------------------------------------
(* Arithmetic helpers *)

Max(a, b) == IF a >= b THEN a ELSE b

\* the range of int
INT_MAX == 2147483647
INT_MIN == (0 - INT_MAX) - 1

\* x + y of two ints as the add instruction leaves it (two's complement)
Int32Add(x, y) ==
    IF x > 0 /\ y > 0 /\ x > INT_MAX - y
    THEN ((x - INT_MAX) - 1) + ((y - INT_MAX) - 1)
    ELSE IF x < 0 /\ y < 0 /\ x < INT_MIN - y
    THEN ((x + INT_MAX) + 1) + ((y + INT_MAX) + 1)
    ELSE x + y

\* a * b of two non-negative ints as the multiply instruction leaves it:
\* the exact product when it fits, and its low 32 bits when the signed
\* multiplication overflows
RECURSIVE Int32MulWrap(_, _)
Int32MulWrap(a, b) ==
    IF b = 0 THEN 0
    ELSE LET h == Int32MulWrap(a, b \div 2)
             dbl == Int32Add(h, h)
         IN  IF b % 2 = 1 THEN Int32Add(dbl, a) ELSE dbl

Int32Mul(a, b) ==
    IF a = 0 \/ b = 0 THEN 0
    ELSE IF a > 0 /\ b > 0 /\ b <= INT_MAX \div a THEN a * b
    ELSE Int32MulWrap(a, b)

\* floor(a * b / c) for a >= 0, b > 0, c > 0 with c * b within int: the
\* value, and whether it is within int
MulDiv(a, b, c) ==
    LET q == a \div c
        low == ((a % c) * b) \div c
    IN  IF q <= (INT_MAX - low) \div b
        THEN [fits |-> TRUE, value |-> q * b + low]
        ELSE [fits |-> FALSE, value |-> 0]

\* static_cast<int>(x) of a double: its truncation, and outside the range
\* of int (undefined behaviour) the value ub the build's conversion yields
CastInt(x, ub) == IF x.fits THEN x.value ELSE ub

\* TPQ * (TEMPO / 60.0) ticks per second, kept as ticks per minute over
\* the milliseconds of a minute to stay integral
TicksPerMinute == TPQ * TEMPO
MsPerMinute == 60 * 1000

\* milliseconds at which the double product currentWallTime * 1440.0 is one
\* ulp below the exact integer, so that the cast to int yields one less
FpLowMs == {175, 350, 575, 700, 1025, 1150, 1275, 1400, 2050, 2175, 2300,
            2425, 2550, 2675, 2800, 4100, 4225, 4350, 4475, 4600, 4725,
            4850, 4975, 5100, 5225, 5350, 5475, 5600}

\* static_cast<int>(currentWallTime * (TPQ * (TEMPO / 60.0))),
\* currentWallTime = ms / 1000.0
TickOfMs(ms) ==
    ((ms * TicksPerMinute) \div MsPerMinute) - (IF ms \in FpLowMs THEN 1 ELSE 0)

ticksPerBar == BEATS_PER_BAR * TPQ
ticksPerStep == ticksPerBar \div 4

\* TPQ * (TEMPO / 60.0), ticks per second, for a build with the given TEMPO
\* (a multiple of 60, so that TEMPO / 60.0 is exact)
TicksPerSecondAt(tempo) == (TPQ * tempo) \div 60

\* totalTicks = static_cast<int>(durationSec * (TPQ * (TEMPO / 60.0)))
TotalTicksAt(tempo, d, ub) ==
    CastInt(MulDiv(d, TicksPerSecondAt(tempo), 1), ub)

\* DrumTicksPerPhaseAt without the division by the phase count
DrumTicksPerPhaseAtWhole(tempo, d, p, ub) ==
    LET raw == CastInt(MulDiv(d, TicksPerSecondAt(tempo), 1), ub)
    IN  IF d > 0 /\ raw <= 0 THEN 1 ELSE raw

\* DrumTicksPerPhaseAt without the floor of one tick
DrumTicksPerPhaseAtNoFloor(tempo, d, p, ub) ==
    CastInt(MulDiv(d, TicksPerSecondAt(tempo), IF p > 0 THEN p ELSE 1), ub)

\* drum worker: raw ticks per phase, floored at 1
DrumTicksPerPhaseAt(tempo, d, p, ub) ==
    LET raw == CastInt(MulDiv(d, TicksPerSecondAt(tempo),
                              IF p > 0 THEN p ELSE 1), ub)
    IN  IF d > 0 /\ raw <= 0 THEN 1 ELSE raw

\* melodic worker: ticks per phase rounded to whole bars (std::round, half
\* away from zero) and multiplied back in int, with a floor of one bar and
\* a clamp of negative values to 0
AdjustedTicksPerPhaseAt(tempo, d, p, ub) ==
    LET den == IF p > 0 THEN p ELSE 1
        \* initialTicksPerPhase / ticksPerBar = d * tempo / (60 * BEATS_PER_BAR * den)
        barDen == 60 * BEATS_PER_BAR * den
        bars == (2 * d * tempo + barDen) \div (2 * barDen)
        product == Int32Mul(bars, ticksPerBar)
        adj == IF ticksPerBar > 0 /\ d > 0
               THEN (IF product = 0 THEN ticksPerBar ELSE product)
               ELSE CastInt(MulDiv(d, TicksPerSecondAt(tempo), den), ub)
    IN  IF adj < 0 THEN 0 ELSE adj

\* adjustedTotalTicks = adjustedTicksPerPhase * numPhases, in int
AdjustedTotalTicksAt(tempo, d, p, ub) ==
    Int32Mul(AdjustedTicksPerPhaseAt(tempo, d, p, ub), p)

\* the build of include/Constants.h; no conversion leaves the range of int
\* for the durations the workers are run with
TotalTicks(d) == TotalTicksAt(TEMPO, d, INT_MIN)
DrumTicksPerPhase(d, p) == DrumTicksPerPhaseAt(TEMPO, d, p, INT_MIN)
AdjustedTicksPerPhase(d, p) == AdjustedTicksPerPhaseAt(TEMPO, d, p, INT_MIN)
AdjustedTotalTicks(d, p) == AdjustedTotalTicksAt(TEMPO, d, p, INT_MIN)

\* MelodicFinished comparing with the requested duration
MelodicFinishedAtRequested(ms, d, p) == ms >= 1000 * d

\* currentWallTime >= adjustedDurationSec, both sides in milliseconds:
\* ms / 1000.0 >= adjustedTotalTicks / (TPQ * (TEMPO / 60.0))
MelodicFinished(ms, d, p) ==
    ms * TicksPerMinute >= AdjustedTotalTicks(d, p) * MsPerMinute

\* DrumFinished for a loop without the elapsed-duration check
DrumFinishedNever(ms, d) == FALSE

\* currentWallTime >= durationSec
DrumFinished(ms, d) == ms >= 1000 * d

\* NewPhase without the clamp to the last phase
NewPhaseUnclamped(tick, tpp, p) ==
    IF tpp > 0 THEN tick \div tpp ELSE 0

\* newPhase = tick / ticksPerPhase, clamped to numPhases - 1
NewPhase(tick, tpp, p) ==
    LET raw == IF tpp > 0 THEN tick \div tpp ELSE 0
    IN  IF raw >= p THEN p - 1 ELSE raw

\* isScheduled: ratio = cpuDelta / wallDelta (0 if wallDelta <= 0),
\* scheduled iff ratio > SCHEDULE_THRESHOLD
\* SchedulingRatio dividing whatever the wall-time delta is
SchedulingRatioUnguarded(wallDelta, cpuDelta) ==
    [divided |-> TRUE, num |-> cpuDelta, den |-> wallDelta]

\* schedulingRatio = (wallTimeDelta > 0) ? cpuTimeDelta / wallTimeDelta : 0,
\* as a fraction, with whether the division was executed
SchedulingRatio(wallDelta, cpuDelta) ==
    IF wallDelta > 0
    THEN [divided |-> TRUE, num |-> cpuDelta, den |-> wallDelta]
    ELSE [divided |-> FALSE, num |-> 0, den |-> 1]

IsScheduled(wallDelta, cpuDelta) ==
    LET ratio == SchedulingRatio(wallDelta, cpuDelta)
    IN  ratio.num * SCHEDULE_THRESHOLD_INV > ratio.den

----------------------------------------------------------------------------
(* MIDI events and the drum patterns *)

Event(kind, tick, channel, pitch, velocity, text, num) ==
    [kind |-> kind, tick |-> tick, channel |-> channel, pitch |-> pitch,
     velocity |-> velocity, text |-> text, num |-> num]

NoteOn(tick, channel, pitch, velocity) ==
    Event("NoteOn", tick, channel, pitch, velocity, "", 0)
NoteOff(tick, channel, pitch) ==
    Event("NoteOff", tick, channel, pitch, 0, "", 0)
\* "Phase " + std::to_string(n) is kept as the pair (text, num)
Marker(tick, text, num) == Event("Marker", tick, 0, 0, 0, text, num)
TrackName(tick, text, num) == Event("TrackName", tick, 0, 0, 0, text, num)

\* generateDrumPattern(phaseNumber): the slots set in each grid
PatternKick(ph) ==
    CASE ph % 3 = 0 -> {0, 8}
      [] ph % 3 = 1 -> {0, 6, 12}
      [] OTHER      -> {0, 8}
PatternSnare(ph) ==
    CASE ph % 3 = 0 -> {4, 12}
      [] ph % 3 = 1 -> {4, 10}
      [] OTHER      -> {8}
PatternHihat(ph) ==
    CASE ph % 3 = 0 -> {i \in 0..15 : i % 2 = 0}
      [] ph % 3 = 1 -> {0, 4, 8, 12}
      [] OTHER      -> {i \in 0..15 : i % 4 = 0}
PatternVelocity(i) ==
    IF i % 4 = 0 THEN 110 ELSE IF i % 2 = 0 THEN 90 ELSE 70

----------------------------------------------------------------------------
(* State *)

VARIABLES
    threadCount,   \* main: number of threads (drum + melodic)
    durationSec,   \* main: requested duration in seconds
    numPhases,     \* main: number of musical phases
    now,           \* wall clock, milliseconds
    running,       \* std::atomic<bool> running
    midi_mutex,    \* std::mutex midi_mutex: the holder, or NoOne
    midifile,      \* MidiFile: one event list per track
    mainpc,        \* main: position
    created,       \* main: threads.size()
    joined,        \* main: number of threads joined so far
    sortCalls,     \* number of calls of midifile.sortTracks()
    pc,            \* each worker's position
    st,            \* each worker's local variables
    snippets       \* each melodic worker's data.snippets

vars == <<threadCount, durationSec, numPhases, now, running, midi_mutex,
          midifile, mainpc, created, joined, sortCalls, pc, st, snippets>>

config == <<threadCount, durationSec, numPhases>>
clocks == <<now>>
mainvars == <<mainpc, created, joined, sortCalls>>

\* main: config.channel = (i - 1) % 15 + 1, channel 9 is skipped
Channel(i) ==
    IF i = 0 THEN DRUM_CHANNEL
    ELSE IF ((i - 1) % 15) + 1 = 9 THEN 16 ELSE ((i - 1) % 15) + 1

\* main: config.instrument by register
Instrument(i) ==
    IF i % 3 = 1 THEN 32 + (i % 8)
    ELSE IF i % 3 = 2 THEN 16 + (i % 8) ELSE 80 + (i % 8)

\* the local variables of a thread function at its entry, with the role
\* flag of its ThreadData.  isScheduled and lastCpuTime are the scheduling
\* sampler's; drumThreadFunction has no sampler and never reads them.
InitialLocals ==
    [isDrumThread |-> FALSE, startWallTime |-> 0, lastWallTime |-> 0, lastCpuTime |-> 0,
     currentPhase |-> -1, currentTick |-> 0, currentStep |-> -1,
     wasScheduled |-> FALSE, isScheduled |-> FALSE, noteIsOn |-> FALSE,
     currentNote |-> -1, noteStartTick |-> 0, noteDuration |-> 0,
     wakeAt |-> 0]

\* a Snippet as the content generator returns it
MkSnippet(notes) == [notes |-> notes, currentNoteIndex |-> 0]

\* main: rootNote = PHASE_ROOTS[phase % PHASE_ROOTS.size()]
PhaseRoot(phase) ==
    CASE phase % 4 = 0 -> 0
      [] phase % 4 = 1 -> 7
      [] phase % 4 = 2 -> 5
      [] OTHER         -> 2

\* main: the register of thread i (BASS_LOW, MID_LOW, HIGH_LOW)
RegisterLow(i) ==
    IF i % 3 = 1 THEN 36 ELSE IF i % 3 = 2 THEN 48 ELSE 60

\* generateSnippet(low, high, scale, rootNote, isBass) for thread i and a
\* phase: the phrase in the thread's register on the phase's root
GenerateSnippet(shape, i, phase) ==
    LET notes == ShapeNotes(shape, phase)
    IN  MkSnippet([k \in 1..Len(notes) |->
                     [notes[k] EXCEPT !.pitch =
                         RegisterLow(i) + PhaseRoot(phase) + @]])

\* main, up to the creation of the threads: tracks, tempo, time signature,
\* patch changes, per-phase snippets
Init ==
    /\ threadCount \in 1..Cardinality(Workers)
    /\ durationSec \in 1..MaxDuration
    /\ numPhases \in 1..MaxPhases
    /\ now = 0
    /\ running = TRUE
    /\ midi_mutex = NoOne
    /\ midifile = [t \in Workers |->
                     IF t = 0
                     THEN << Event("Tempo", 0, 0, 0, 0, "", TEMPO),
                             Event("TimeSignature", 0, 0, 0, 0, "", 4) >>
                     ELSE IF t < threadCount
                     THEN << Event("PatchChange", 0, Channel(t), 0, 0, "",
                                   Instrument(t)) >>
                     ELSE << >>]
    /\ mainpc = "spawn"
    /\ created = 0
    /\ joined = 0
    /\ sortCalls = 0
    /\ pc = [w \in Workers |-> "idle"]
    /\ st = [w \in Workers |-> [InitialLocals EXCEPT !.isDrumThread = (w = 0)]]
    /\ \E shape \in Shapes :
          snippets = [w \in Workers |->
                        IF w >= 1 /\ w < threadCount
                        THEN [i \in 1..numPhases |->
                                 GenerateSnippet(shape, w, i - 1)]
                        ELSE << >>]

----------------------------------------------------------------------------
(* The environment: clocks and the shared running flag *)

AllDone == \A w \in Workers : w < threadCount => pc[w] = "done"

\* the latest instant the model follows the clocks to
Horizon ==
    Max(1000 * durationSec,
        ((AdjustedTotalTicks(durationSec, numPhases) * MsPerMinute)
            \div TicksPerMinute) + 1)

\* a pass of a worker's loop takes microseconds, the clock is followed in
\* steps of TickSteps: every live worker is in its sleep when it advances
Quiescent ==
    /\ mainpc # "spawn"
    /\ \A w \in Workers : w < threadCount => pc[w] \in {"sleep", "done"}

\* wall time passes
Tick ==
    /\ ~AllDone
    /\ Quiescent
    /\ now < Horizon
    /\ \E dt \in TickSteps : now' = now + dt
    /\ UNCHANGED <<config, running, midi_mutex, midifile, mainvars, pc, st,
                   snippets>>

\* running is exported (extern std::atomic<bool> running) and only read by
\* the workers; a store of false comes from outside the thread functions
Cancel ==
    /\ running
    /\ ~AllDone
    /\ running' = FALSE
    /\ UNCHANGED <<config, clocks, midi_mutex, midifile, mainvars, pc, st,
                   snippets>>

----------------------------------------------------------------------------
(* main: create the threads, join them, sort *)

\* Spawn creating a thread for every worker, whatever threadCount is
SpawnEveryWorker ==
    /\ mainpc = "spawn"
    /\ created < Cardinality(Workers)
    /\ pc' = [pc EXCEPT ![created] = "start"]
    /\ created' = created + 1
    /\ mainpc' = IF created + 1 = Cardinality(Workers) THEN "join" ELSE "spawn"
    /\ UNCHANGED <<config, clocks, running, midi_mutex, midifile, joined,
                   sortCalls, st, snippets>>

\* threads.emplace_back(...), in the order of threadConfigs
Spawn ==
    /\ mainpc = "spawn"
    /\ created < threadCount
    /\ pc' = [pc EXCEPT ![created] = "start"]
    /\ created' = created + 1
    /\ mainpc' = IF created + 1 = threadCount THEN "join" ELSE "spawn"
    /\ UNCHANGED <<config, clocks, running, midi_mutex, midifile, joined,
                   sortCalls, st, snippets>>

\* JoinReturns without waiting for the thread
JoinReturnsAtOnce(t) == TRUE

\* t.join() returns once thread t has returned
JoinReturns(t) == pc[t] = "done"

Join ==
    /\ mainpc = "join"
    /\ joined < threadCount
    /\ JoinReturns(joined)
    /\ joined' = joined + 1
    /\ mainpc' = IF joined + 1 = threadCount THEN "sort" ELSE "join"
    /\ UNCHANGED <<config, clocks, running, midi_mutex, midifile, created,
                   sortCalls, pc, st, snippets>>

\* InsertEvent placing an event before the events of its own tick
RECURSIVE InsertEventUnstable(_, _)
InsertEventUnstable(sorted, e) ==
    IF sorted = <<>> THEN <<e>>
    ELSE IF sorted[Len(sorted)].tick < e.tick THEN Append(sorted, e)
    ELSE Append(InsertEventUnstable(SubSeq(sorted, 1, Len(sorted) - 1), e),
                sorted[Len(sorted)])

\* MidiEventList::sort as the Timeline Sink contract states it: a stable
\* sort by tick (insertion sort, an event goes after all events whose tick
\* is not greater)
RECURSIVE InsertEvent(_, _)
InsertEvent(sorted, e) ==
    IF sorted = <<>> THEN <<e>>
    ELSE IF sorted[Len(sorted)].tick <= e.tick THEN Append(sorted, e)
    ELSE Append(InsertEvent(SubSeq(sorted, 1, Len(sorted) - 1), e),
                sorted[Len(sorted)])

\* the sorted prefix is bound as a value, so that it is computed once
RECURSIVE SortEvents(_)
SortEvents(events) ==
    IF events = <<>> THEN <<>>
    ELSE CHOOSE s \in
             {InsertEvent(sorted, events[Len(events)]) :
                 sorted \in {SortEvents(prefix) :
                     prefix \in {SubSeq(events, 1, Len(events) - 1)}}} :
             TRUE

\* midifile.sortTracks()
SortTracks ==
    /\ mainpc = "sort"
    /\ midifile' = [t \in Workers |-> SortEvents(midifile[t])]
    /\ sortCalls' = sortCalls + 1
    /\ mainpc' = "done"
    /\ UNCHANGED <<config, clocks, running, midi_mutex, created, joined, pc,
                   st, snippets>>

----------------------------------------------------------------------------
(* midi_mutex and the steps common to both thread functions *)

LockPcs == {"nameLock", "phaseLock", "stepLock", "schedLock", "expLock",
            "exitLock", "finalLock"}

CriticalPcs == {"nameCS", "phaseCS", "stepCS", "schedCS", "expCS", "exitCS",
                "finalCS"}

CSOf(p) ==
    CASE p = "nameLock"  -> "nameCS"
      [] p = "phaseLock" -> "phaseCS"
      [] p = "stepLock"  -> "stepCS"
      [] p = "schedLock" -> "schedCS"
      [] p = "expLock"   -> "expCS"
      [] p = "exitLock"  -> "exitCS"
      [] p = "finalLock" -> "finalCS"

\* CanLock without waiting for the owner
CanLockAlways(m) == TRUE

\* std::mutex::lock() returns only when no thread owns the mutex
CanLock(m) == m = NoOne

\* the end of a lock_guard's scope: std::mutex::unlock()
Unlock(m, w) == IF m = w THEN NoOne ELSE m

\* std::lock_guard<std::mutex> lock(midi_mutex)
Acquire(w) ==
    /\ pc[w] \in LockPcs
    /\ CanLock(midi_mutex)
    /\ midi_mutex' = w
    /\ pc' = [pc EXCEPT ![w] = CSOf(pc[w])]
    /\ UNCHANGED <<config, clocks, running, midifile, mainvars, st, snippets>>

\* Track leaving every config on the drum thread's track
TrackOfDrum(i) == 0

\* main: drumThread.track = 0, config.track = i
Track(i) == i

\* another thread is inside a critical section of its own
Racing(w) == \E v \in Workers \ {w} : pc[v] \in CriticalPcs

\* midifile.addX(data.track, ...) of thread w.  A call made
\* while another thread is inside a call on the same MidiFile is a data
\* race: the events are stored, or lost.
AddEvents(w, events) ==
    midifile' \in
        IF Racing(w)
        THEN {[midifile EXCEPT ![Track(w)] = @ \o events], midifile}
        ELSE {[midifile EXCEPT ![Track(w)] = @ \o events]}

\* the thread function's entry: startWallTime, and lastCpuTime, the first
\* reading of the CPU clock, taken as its origin
Start(w) ==
    /\ pc[w] = "start"
    /\ st' = [st EXCEPT ![w].startWallTime = now,
                        ![w].lastCpuTime = 0]
    /\ pc' = [pc EXCEPT ![w] = "nameLock"]
    /\ UNCHANGED <<config, clocks, running, midi_mutex, midifile, mainvars,
                   snippets>>

\* midifile.addTrackName(data.track, 0, ...)
NameCS(w) ==
    /\ pc[w] = "nameCS"
    /\ AddEvents(w, << IF st[w].isDrumThread THEN TrackName(0, "Drum Track", 0)
                                ELSE TrackName(0, "Thread", w) >>)
    /\ midi_mutex' = Unlock(midi_mutex, w)
    /\ pc' = [pc EXCEPT ![w] = "loop"]
    /\ UNCHANGED <<config, clocks, running, mainvars, st, snippets>>

\* the busy-work loop; the sleep that follows starts when it ends
Busy(w) ==
    /\ pc[w] = "busy"
    /\ st' = [st EXCEPT ![w].wakeAt = now + THREAD_SLEEP_MS]
    /\ pc' = [pc EXCEPT ![w] = "sleep"]
    /\ UNCHANGED <<config, clocks, running, midi_mutex, midifile, mainvars,
                   snippets>>

\* std::this_thread::sleep_for(THREAD_SLEEP_MS) returns
Sleep(w) ==
    /\ pc[w] = "sleep"
    /\ now >= st[w].wakeAt
    /\ pc' = [pc EXCEPT ![w] = "loop"]
    /\ UNCHANGED <<config, clocks, running, midi_mutex, midifile, mainvars,
                   st, snippets>>

----------------------------------------------------------------------------
(* drumThreadFunction *)

\* stepPosition = (currentTick / ticksPerStep) % 16
StepPosition(tick) ==
    IF ticksPerStep > 0 THEN (tick \div ticksPerStep) % 16 ELSE 0

\* stepTick: the tick quantized to the grid
StepTick(tick) ==
    IF ticksPerStep > 0 THEN (tick \div ticksPerStep) * ticksPerStep ELSE tick

\* CurrentTick of the wall time elapsed since the last sample
CurrentTickOfDelta(l, nowMs) ==
    TickOfMs(nowMs - l.startWallTime - l.lastWallTime)

\* currentTick: the tick of the wall time elapsed since startWallTime
CurrentTick(l, nowMs) == TickOfMs(nowMs - l.startWallTime)

\* the position after the phase-transition block
DrumNextPc(l) ==
    IF StepPosition(l.currentTick) # l.currentStep THEN "stepLock" ELSE "busy"

\* one pass of the loop head: running, clock, duration check, tick, phase
DrumLoop(w) ==
    /\ st[w].isDrumThread
    /\ pc[w] = "loop"
    /\ LET ms == now - st[w].startWallTime
           tick == CurrentTick(st[w], now)
           tpp == DrumTicksPerPhase(durationSec, numPhases)
           l2 == [st[w] EXCEPT !.currentTick = tick]
       IN  IF ~running \/ DrumFinished(ms, durationSec)
           THEN /\ pc' = [pc EXCEPT ![w] = "finalLock"]
                /\ st' = st
           ELSE /\ st' = [st EXCEPT ![w] = l2]
                /\ pc' = [pc EXCEPT ![w] =
                            IF NewPhase(tick, tpp, numPhases) # l2.currentPhase
                            THEN "phaseLock" ELSE DrumNextPc(l2)]
    /\ UNCHANGED <<config, clocks, running, midi_mutex, midifile, mainvars,
                   snippets>>

\* DrumPhaseEvents with the boundary tick of one phase, not of newPhase
DrumPhaseEventsOnePhase(newPhase, tpp) ==
    LET phaseEventTick == tpp
    IN  << Marker(phaseEventTick, "Phase", newPhase + 1),
           NoteOn(phaseEventTick, DRUM_CHANNEL, CRASH, CRASH_VELOCITY),
           NoteOff(phaseEventTick + Max(1, ticksPerStep), DRUM_CHANNEL, CRASH) >>

\* the events of a phase transition: marker and crash cymbal
DrumPhaseEvents(newPhase, tpp) ==
    LET phaseEventTick == newPhase * tpp
    IN  << Marker(phaseEventTick, "Phase", newPhase + 1),
           NoteOn(phaseEventTick, DRUM_CHANNEL, CRASH, CRASH_VELOCITY),
           NoteOff(phaseEventTick + Max(1, ticksPerStep), DRUM_CHANNEL, CRASH) >>

DrumPhaseCS(w) ==
    /\ pc[w] = "phaseCS"
    /\ st[w].isDrumThread
    /\ LET tpp == DrumTicksPerPhase(durationSec, numPhases)
           newPhase == NewPhase(st[w].currentTick, tpp, numPhases)
           l2 == [st[w] EXCEPT !.currentPhase = newPhase]
       IN  /\ AddEvents(w, DrumPhaseEvents(newPhase, tpp))
           /\ st' = [st EXCEPT ![w] = l2]
           /\ pc' = [pc EXCEPT ![w] = DrumNextPc(l2)]
    /\ midi_mutex' = Unlock(midi_mutex, w)
    /\ UNCHANGED <<config, clocks, running, mainvars, snippets>>

\* DrumHit closing the hit a whole step after it starts
DrumHitFullStep(stepTick, pitch, velocity) ==
    << NoteOn(stepTick, DRUM_CHANNEL, pitch, velocity),
       NoteOff(stepTick + Max(1, ticksPerStep), DRUM_CHANNEL, pitch) >>

\* one drum hit: NoteOn at the step, NoteOff one step minus one tick later
DrumHit(stepTick, pitch, velocity) ==
    << NoteOn(stepTick, DRUM_CHANNEL, pitch, velocity),
       NoteOff(stepTick + Max(1, ticksPerStep - 1), DRUM_CHANNEL, pitch) >>

\* the hits of the step of `tick` in the pattern of `phase`
DrumHits(phase, tick) ==
    LET pos == StepPosition(tick)
        stepTick == StepTick(tick)
        pattern == phase % numPhases
        hihat == IF pos % 8 = 0 THEN OPEN_HAT ELSE CLOSED_HAT
    IN  (IF pos \in PatternKick(pattern)
         THEN DrumHit(stepTick, KICK, PatternVelocity(pos)) ELSE <<>>)
     \o (IF pos \in PatternSnare(pattern)
         THEN DrumHit(stepTick, SNARE, PatternVelocity(pos)) ELSE <<>>)
     \o (IF pos \in PatternHihat(pattern)
         THEN DrumHit(stepTick, hihat, PatternVelocity(pos)) ELSE <<>>)

\* DrumStepCS playing the step only when the sampler reports scheduled
DrumStepCSWhenScheduled(w) ==
    /\ pc[w] = "stepCS"
    /\ LET l == st[w]
           phase == IF l.currentPhase < 0 THEN 0 ELSE l.currentPhase
       IN  /\ AddEvents(w, IF l.isScheduled
                           THEN DrumHits(phase, l.currentTick) ELSE << >>)
           /\ st' = [st EXCEPT ![w].currentStep = StepPosition(l.currentTick),
                               ![w].currentPhase = phase]
    /\ midi_mutex' = Unlock(midi_mutex, w)
    /\ pc' = [pc EXCEPT ![w] = "busy"]
    /\ UNCHANGED <<config, clocks, running, mainvars, snippets>>

\* DrumStepCS locking without a guard object and never unlocking
DrumStepCSKeepsLock(w) ==
    /\ pc[w] = "stepCS"
    /\ LET l == st[w]
           phase == IF l.currentPhase < 0 THEN 0 ELSE l.currentPhase
       IN  /\ AddEvents(w, DrumHits(phase, l.currentTick))
           /\ st' = [st EXCEPT ![w].currentStep = StepPosition(l.currentTick),
                               ![w].currentPhase = phase]
    /\ midi_mutex' = midi_mutex
    /\ pc' = [pc EXCEPT ![w] = "busy"]
    /\ UNCHANGED <<config, clocks, running, mainvars, snippets>>

\* DrumStepCS without the update of currentStep
DrumStepCSForgetsStep(w) ==
    /\ pc[w] = "stepCS"
    /\ LET l == st[w]
           phase == IF l.currentPhase < 0 THEN 0 ELSE l.currentPhase
       IN  /\ AddEvents(w, DrumHits(phase, l.currentTick))
           /\ st' = [st EXCEPT ![w].currentStep = l.currentStep,
                               ![w].currentPhase = phase]
    /\ midi_mutex' = Unlock(midi_mutex, w)
    /\ pc' = [pc EXCEPT ![w] = "busy"]
    /\ UNCHANGED <<config, clocks, running, mainvars, snippets>>

DrumStepCS(w) ==
    /\ pc[w] = "stepCS"
    /\ LET l == st[w]
           phase == IF l.currentPhase < 0 THEN 0 ELSE l.currentPhase
       IN  /\ AddEvents(w, DrumHits(phase, l.currentTick))
           /\ st' = [st EXCEPT ![w].currentStep = StepPosition(l.currentTick),
                               ![w].currentPhase = phase]
    /\ midi_mutex' = Unlock(midi_mutex, w)
    /\ pc' = [pc EXCEPT ![w] = "busy"]
    /\ UNCHANGED <<config, clocks, running, mainvars, snippets>>

\* the final marker, "Original End"
DrumFinalCS(w) ==
    /\ pc[w] = "finalCS"
    /\ st[w].isDrumThread
    /\ AddEvents(w, << Marker(Max(st[w].currentTick, TotalTicks(durationSec)),
                              "Original End", 0) >>)
    /\ midi_mutex' = Unlock(midi_mutex, w)
    /\ pc' = [pc EXCEPT ![w] = "done"]
    /\ UNCHANGED <<config, clocks, running, mainvars, st, snippets>>

----------------------------------------------------------------------------
(* melodicThreadFunction *)

NoNote == [pitch |-> -1, velocity |-> 0, duration |-> 0]

\* GetNextNote running off the end of the phrase instead of wrapping
GetNextNoteNoWrap(snippet) ==
    IF snippet.currentNoteIndex >= Len(snippet.notes)
    THEN [note |-> NoNote, snippet |-> snippet]
    ELSE [note |-> snippet.notes[snippet.currentNoteIndex + 1],
          snippet |-> [snippet EXCEPT !.currentNoteIndex = @ + 1]]

\* GetNextNote advancing the cursor before it reads the note
GetNextNoteSkipsFirst(snippet) ==
    IF snippet.notes = <<>>
    THEN [note |-> NoNote, snippet |-> snippet]
    ELSE LET next == (snippet.currentNoteIndex + 1) % Len(snippet.notes)
         IN  [note |-> snippet.notes[next + 1],
              snippet |-> [snippet EXCEPT !.currentNoteIndex = next]]

\* GetNextNote handing out a note of its own when the phrase is empty
GetNextNoteOfEmpty(snippet) ==
    IF snippet.notes = <<>>
    THEN [note |-> [pitch |-> 0, velocity |-> 80, duration |-> TPQ],
          snippet |-> snippet]
    ELSE [note |-> snippet.notes[snippet.currentNoteIndex + 1],
          snippet |-> [snippet EXCEPT !.currentNoteIndex =
                          (snippet.currentNoteIndex + 1) % Len(snippet.notes)]]

\* Snippet::getNextNote: the note (NoNote for nullptr) and the snippet after
GetNextNote(snippet) ==
    IF snippet.notes = <<>>
    THEN [note |-> NoNote, snippet |-> snippet]
    ELSE [note |-> snippet.notes[snippet.currentNoteIndex + 1],
          snippet |-> [snippet EXCEPT !.currentNoteIndex =
                          (snippet.currentNoteIndex + 1) % Len(snippet.notes)]]

\* Snippet::reset
Reset(snippet) == [snippet EXCEPT !.currentNoteIndex = 0]

\* getCpuTime(): clock() / CLOCKS_PER_SEC in milliseconds, a monotone clock
\* of the CPU time of the process.  Since the thread's last reading the
\* process has consumed no CPU time, or all of the wall time elapsed.
GetCpuTime(lastCpuTime, wallDelta) ==
    {lastCpuTime, lastCpuTime + Max(wallDelta, 0)}

\* the position after the phase-transition block: a scheduling edge, an
\* expired note, or neither
MelodicNextPc(l) ==
    IF l.isScheduled # l.wasScheduled THEN "schedLock"
    ELSE IF l.isScheduled /\ l.noteIsOn
            /\ l.currentTick - l.noteStartTick >= l.noteDuration
         THEN "expLock"
         ELSE "busy"

\* one pass of the loop head: running, clocks, duration check, scheduling
\* ratio, tick, phase.  lastWallTime and lastCpuTime are not read again in
\* the pass, so their update at its end is made here.
MelodicLoop(w) ==
    /\ ~st[w].isDrumThread
    /\ pc[w] = "loop"
    /\ LET l == st[w]
           ms == now - l.startWallTime
           tick == CurrentTick(l, now)
           tpp == AdjustedTicksPerPhase(durationSec, numPhases)
       IN  IF ~running
           THEN /\ pc' = [pc EXCEPT ![w] = "finalLock"]
                /\ st' = st
           ELSE IF MelodicFinished(ms, durationSec, numPhases)
           THEN /\ pc' = [pc EXCEPT ![w] =
                            IF l.noteIsOn THEN "exitLock" ELSE "finalLock"]
                /\ st' = st
           ELSE \E currentCpuTime \in GetCpuTime(l.lastCpuTime,
                                                 ms - l.lastWallTime) :
                  LET l2 == [l EXCEPT !.isScheduled =
                                        IsScheduled(ms - l.lastWallTime,
                                            currentCpuTime - l.lastCpuTime),
                                      !.currentTick = tick,
                                      !.lastWallTime = ms,
                                      !.lastCpuTime = currentCpuTime]
                  IN  /\ st' = [st EXCEPT ![w] = l2]
                      /\ pc' = [pc EXCEPT ![w] =
                                  IF NewPhase(tick, tpp, numPhases)
                                        # l2.currentPhase
                                  THEN "phaseLock" ELSE MelodicNextPc(l2)]
    /\ UNCHANGED <<config, clocks, running, midi_mutex, midifile, mainvars,
                   snippets>>

\* ExitEvents closing the note at the tick of the last sample
ExitEventsAtCurrentTick(l, adjustedTotalTicks, ch) ==
    << NoteOff(l.currentTick, ch, l.currentNote) >>

\* the duration check fired while a note sounds: close it at the aligned end
ExitEvents(l, adjustedTotalTicks, ch) ==
    << NoteOff(adjustedTotalTicks, ch, l.currentNote) >>

\* MelodicExitCS with the guard of the closing NoteOff still alive when the
\* final marker is locked for
MelodicExitCSKeepsLock(w) ==
    /\ pc[w] = "exitCS"
    /\ AddEvents(w, ExitEvents(st[w],
                               AdjustedTotalTicks(durationSec, numPhases),
                               Channel(w)))
    /\ midi_mutex' = midi_mutex
    /\ pc' = [pc EXCEPT ![w] = "finalLock"]
    /\ UNCHANGED <<config, clocks, running, mainvars, st, snippets>>

MelodicExitCS(w) ==
    /\ pc[w] = "exitCS"
    /\ AddEvents(w, ExitEvents(st[w],
                               AdjustedTotalTicks(durationSec, numPhases),
                               Channel(w)))
    /\ midi_mutex' = Unlock(midi_mutex, w)
    /\ pc' = [pc EXCEPT ![w] = "finalLock"]
    /\ UNCHANGED <<config, clocks, running, mainvars, st, snippets>>

\* PhaseChange marking the boundary once for the note it closes and once
\* for the phase
PhaseChangeTwoMarkers(l, sn, tpp, p, ch) ==
    LET newPhase == NewPhase(l.currentTick, tpp, p)
        phaseEventTick == newPhase * tpp
        off == IF l.noteIsOn
               THEN << NoteOff(Max(l.noteStartTick, phaseEventTick), ch,
                               l.currentNote),
                       Marker(phaseEventTick, "Phase", newPhase + 1) >>
               ELSE << >>
        i == (newPhase % Len(sn)) + 1
    IN  [l |-> [l EXCEPT !.noteIsOn = FALSE,
                         !.wasScheduled = IF l.noteIsOn THEN FALSE ELSE @,
                         !.currentPhase = newPhase],
         sn |-> IF newPhase >= 0 /\ newPhase < Len(sn)
                THEN [sn EXCEPT ![i] = Reset(@)] ELSE sn,
         events |-> off \o << Marker(phaseEventTick, "Phase", newPhase + 1) >>]

\* PhaseChange adding the phase marker before it closes the sounding note
PhaseChangeMarkerFirst(l, sn, tpp, p, ch) ==
    LET newPhase == NewPhase(l.currentTick, tpp, p)
        phaseEventTick == newPhase * tpp
        off == IF l.noteIsOn
               THEN << NoteOff(Max(l.noteStartTick, phaseEventTick), ch,
                               l.currentNote) >>
               ELSE << >>
        i == (newPhase % Len(sn)) + 1
    IN  [l |-> [l EXCEPT !.noteIsOn = FALSE,
                         !.wasScheduled = IF l.noteIsOn THEN FALSE ELSE @,
                         !.currentPhase = newPhase],
         sn |-> IF newPhase >= 0 /\ newPhase < Len(sn)
                THEN [sn EXCEPT ![i] = Reset(@)] ELSE sn,
         events |-> << Marker(phaseEventTick, "Phase", newPhase + 1) >> \o off]

\* PhaseChange closing the note in the timeline while the worker still
\* counts it as sounding
PhaseChangeKeepsSounding(l, sn, tpp, p, ch) ==
    LET newPhase == NewPhase(l.currentTick, tpp, p)
        phaseEventTick == newPhase * tpp
        off == IF l.noteIsOn
               THEN << NoteOff(Max(l.noteStartTick, phaseEventTick), ch,
                               l.currentNote) >>
               ELSE << >>
        i == (newPhase % Len(sn)) + 1
    IN  [l |-> [l EXCEPT !.noteIsOn = l.noteIsOn,
                         !.wasScheduled = IF l.noteIsOn THEN FALSE ELSE @,
                         !.currentPhase = newPhase],
         sn |-> IF newPhase >= 0 /\ newPhase < Len(sn)
                THEN [sn EXCEPT ![i] = Reset(@)] ELSE sn,
         events |-> off \o << Marker(phaseEventTick, "Phase", newPhase + 1) >>]

\* PhaseChange closing the sounding note without resetting the recorded
\* scheduling signal
PhaseChangeKeepsSignal(l, sn, tpp, p, ch) ==
    LET newPhase == NewPhase(l.currentTick, tpp, p)
        phaseEventTick == newPhase * tpp
        off == IF l.noteIsOn
               THEN << NoteOff(Max(l.noteStartTick, phaseEventTick), ch,
                               l.currentNote) >>
               ELSE << >>
        i == (newPhase % Len(sn)) + 1
    IN  [l |-> [l EXCEPT !.noteIsOn = FALSE,
                         !.wasScheduled = l.wasScheduled,
                         !.currentPhase = newPhase],
         sn |-> IF newPhase >= 0 /\ newPhase < Len(sn)
                THEN [sn EXCEPT ![i] = Reset(@)] ELSE sn,
         events |-> off \o << Marker(phaseEventTick, "Phase", newPhase + 1) >>]

\* phase transition: close the sounding note, marker, reset the snippet
PhaseChange(l, sn, tpp, p, ch) ==
    LET newPhase == NewPhase(l.currentTick, tpp, p)
        phaseEventTick == newPhase * tpp
        off == IF l.noteIsOn
               THEN << NoteOff(Max(l.noteStartTick, phaseEventTick), ch,
                               l.currentNote) >>
               ELSE << >>
        i == (newPhase % Len(sn)) + 1
    IN  [l |-> [l EXCEPT !.noteIsOn = FALSE,
                         !.wasScheduled = IF l.noteIsOn THEN FALSE ELSE @,
                         !.currentPhase = newPhase],
         sn |-> IF newPhase >= 0 /\ newPhase < Len(sn)
                THEN [sn EXCEPT ![i] = Reset(@)] ELSE sn,
         events |-> off \o << Marker(phaseEventTick, "Phase", newPhase + 1) >>]

MelodicPhaseCS(w) ==
    /\ pc[w] = "phaseCS"
    /\ ~st[w].isDrumThread
    /\ LET r == PhaseChange(st[w], snippets[w],
                            AdjustedTicksPerPhase(durationSec, numPhases),
                            numPhases, Channel(w))
       IN  /\ AddEvents(w, r.events)
           /\ st' = [st EXCEPT ![w] = r.l]
           /\ snippets' = [snippets EXCEPT ![w] = r.sn]
           /\ pc' = [pc EXCEPT ![w] = MelodicNextPc(r.l)]
    /\ midi_mutex' = Unlock(midi_mutex, w)
    /\ UNCHANGED <<config, clocks, running, mainvars>>

\* SchedChange stamping the new note with the start of the phase
SchedChangeAtPhaseStart(l, sn, tpp, ch) ==
    LET nextPhaseTick == (l.currentPhase + 1) * tpp
        inRange == l.currentPhase >= 0 /\ l.currentPhase < Len(sn)
        i == (l.currentPhase % Len(sn)) + 1
        g == GetNextNote(sn[i])
        endTick == IF tpp > 0 /\ l.currentTick >= nextPhaseTick
                   THEN nextPhaseTick ELSE l.currentTick
    IN  IF l.isScheduled
        THEN IF ~l.noteIsOn /\ inRange
                /\ (tpp = 0 \/ l.currentTick < nextPhaseTick)
             THEN IF g.note # NoNote
                  THEN [l |-> [l EXCEPT !.currentNote = g.note.pitch,
                                        !.noteDuration = g.note.duration,
                                        !.noteStartTick = l.currentTick,
                                        !.noteIsOn = TRUE,
                                        !.wasScheduled = l.isScheduled],
                        sn |-> [sn EXCEPT ![i] = g.snippet],
                        events |-> << NoteOn(l.currentPhase * tpp, ch, g.note.pitch,
                                             g.note.velocity) >>]
                  ELSE [l |-> [l EXCEPT !.wasScheduled = l.isScheduled],
                        sn |-> sn, events |-> << >>]
             ELSE [l |-> [l EXCEPT !.wasScheduled = l.isScheduled],
                   sn |-> sn, events |-> << >>]
        ELSE IF l.noteIsOn
             THEN [l |-> [l EXCEPT !.noteIsOn = FALSE,
                                   !.wasScheduled = l.isScheduled],
                   sn |-> sn,
                   events |-> << NoteOff(endTick, ch, l.currentNote) >>]
             ELSE [l |-> [l EXCEPT !.wasScheduled = l.isScheduled],
                   sn |-> sn, events |-> << >>]

\* SchedChange closing a descheduled note at the end of its duration
SchedChangeOffAtNoteEnd(l, sn, tpp, ch) ==
    LET nextPhaseTick == (l.currentPhase + 1) * tpp
        inRange == l.currentPhase >= 0 /\ l.currentPhase < Len(sn)
        i == (l.currentPhase % Len(sn)) + 1
        g == GetNextNote(sn[i])
        endTick == IF tpp > 0 /\ l.currentTick >= nextPhaseTick
                   THEN nextPhaseTick ELSE l.currentTick
    IN  IF l.isScheduled
        THEN IF ~l.noteIsOn /\ inRange
                /\ (tpp = 0 \/ l.currentTick < nextPhaseTick)
             THEN IF g.note # NoNote
                  THEN [l |-> [l EXCEPT !.currentNote = g.note.pitch,
                                        !.noteDuration = g.note.duration,
                                        !.noteStartTick = l.currentTick,
                                        !.noteIsOn = TRUE,
                                        !.wasScheduled = l.isScheduled],
                        sn |-> [sn EXCEPT ![i] = g.snippet],
                        events |-> << NoteOn(l.currentTick, ch, g.note.pitch,
                                             g.note.velocity) >>]
                  ELSE [l |-> [l EXCEPT !.wasScheduled = l.isScheduled],
                        sn |-> sn, events |-> << >>]
             ELSE [l |-> [l EXCEPT !.wasScheduled = l.isScheduled],
                   sn |-> sn, events |-> << >>]
        ELSE IF l.noteIsOn
             THEN [l |-> [l EXCEPT !.noteIsOn = FALSE,
                                   !.wasScheduled = l.isScheduled],
                   sn |-> sn,
                   events |-> << NoteOff(l.noteStartTick + l.noteDuration, ch,
                                       l.currentNote) >>]
             ELSE [l |-> [l EXCEPT !.wasScheduled = l.isScheduled],
                   sn |-> sn, events |-> << >>]

\* SchedChange clamping a descheduled note to the boundary that opens its
\* phase instead of the one that closes it
SchedChangeOffAtPhaseStart(l, sn, tpp, ch) ==
    LET nextPhaseTick == (l.currentPhase + 1) * tpp
        inRange == l.currentPhase >= 0 /\ l.currentPhase < Len(sn)
        i == (l.currentPhase % Len(sn)) + 1
        g == GetNextNote(sn[i])
        endTick == IF tpp > 0 /\ l.currentTick >= l.currentPhase * tpp
                   THEN l.currentPhase * tpp ELSE l.currentTick
    IN  IF l.isScheduled
        THEN IF ~l.noteIsOn /\ inRange
                /\ (tpp = 0 \/ l.currentTick < nextPhaseTick)
             THEN IF g.note # NoNote
                  THEN [l |-> [l EXCEPT !.currentNote = g.note.pitch,
                                        !.noteDuration = g.note.duration,
                                        !.noteStartTick = l.currentTick,
                                        !.noteIsOn = TRUE,
                                        !.wasScheduled = l.isScheduled],
                        sn |-> [sn EXCEPT ![i] = g.snippet],
                        events |-> << NoteOn(l.currentTick, ch, g.note.pitch,
                                             g.note.velocity) >>]
                  ELSE [l |-> [l EXCEPT !.wasScheduled = l.isScheduled],
                        sn |-> sn, events |-> << >>]
             ELSE [l |-> [l EXCEPT !.wasScheduled = l.isScheduled],
                   sn |-> sn, events |-> << >>]
        ELSE IF l.noteIsOn
             THEN [l |-> [l EXCEPT !.noteIsOn = FALSE,
                                   !.wasScheduled = l.isScheduled],
                   sn |-> sn,
                   events |-> << NoteOff(endTick, ch, l.currentNote) >>]
             ELSE [l |-> [l EXCEPT !.wasScheduled = l.isScheduled],
                   sn |-> sn, events |-> << >>]

\* scheduling edge: start a note when scheduled, stop it when descheduled
SchedChange(l, sn, tpp, ch) ==
    LET nextPhaseTick == (l.currentPhase + 1) * tpp
        inRange == l.currentPhase >= 0 /\ l.currentPhase < Len(sn)
        i == (l.currentPhase % Len(sn)) + 1
        g == GetNextNote(sn[i])
        endTick == IF tpp > 0 /\ l.currentTick >= nextPhaseTick
                   THEN nextPhaseTick ELSE l.currentTick
    IN  IF l.isScheduled
        THEN IF ~l.noteIsOn /\ inRange
                /\ (tpp = 0 \/ l.currentTick < nextPhaseTick)
             THEN IF g.note # NoNote
                  THEN [l |-> [l EXCEPT !.currentNote = g.note.pitch,
                                        !.noteDuration = g.note.duration,
                                        !.noteStartTick = l.currentTick,
                                        !.noteIsOn = TRUE,
                                        !.wasScheduled = l.isScheduled],
                        sn |-> [sn EXCEPT ![i] = g.snippet],
                        events |-> << NoteOn(l.currentTick, ch, g.note.pitch,
                                             g.note.velocity) >>]
                  ELSE [l |-> [l EXCEPT !.wasScheduled = l.isScheduled],
                        sn |-> sn, events |-> << >>]
             ELSE [l |-> [l EXCEPT !.wasScheduled = l.isScheduled],
                   sn |-> sn, events |-> << >>]
        ELSE IF l.noteIsOn
             THEN [l |-> [l EXCEPT !.noteIsOn = FALSE,
                                   !.wasScheduled = l.isScheduled],
                   sn |-> sn,
                   events |-> << NoteOff(endTick, ch, l.currentNote) >>]
             ELSE [l |-> [l EXCEPT !.wasScheduled = l.isScheduled],
                   sn |-> sn, events |-> << >>]

MelodicSchedCS(w) ==
    /\ pc[w] = "schedCS"
    /\ LET r == SchedChange(st[w], snippets[w],
                            AdjustedTicksPerPhase(durationSec, numPhases),
                            Channel(w))
       IN  /\ AddEvents(w, r.events)
           /\ st' = [st EXCEPT ![w] = r.l]
           /\ snippets' = [snippets EXCEPT ![w] = r.sn]
    /\ midi_mutex' = Unlock(midi_mutex, w)
    /\ pc' = [pc EXCEPT ![w] = "busy"]
    /\ UNCHANGED <<config, clocks, running, mainvars>>

\* Expiry without the NoteOff of the expired note
ExpiryNoOff(l, sn, tpp, ch) ==
    LET intendedEndTick == l.noteStartTick + l.noteDuration
        nextPhaseTick == (l.currentPhase + 1) * tpp
        endTick == IF tpp > 0 /\ intendedEndTick >= nextPhaseTick
                   THEN nextPhaseTick ELSE intendedEndTick
        inRange == l.currentPhase >= 0 /\ l.currentPhase < Len(sn)
        i == (l.currentPhase % Len(sn)) + 1
        g == GetNextNote(sn[i])
    IN  IF (tpp = 0 \/ endTick < nextPhaseTick) /\ inRange
           /\ g.note # NoNote
        THEN [l |-> [l EXCEPT !.currentNote = g.note.pitch,
                              !.noteDuration = g.note.duration,
                              !.noteStartTick = endTick,
                              !.noteIsOn = TRUE],
              sn |-> [sn EXCEPT ![i] = g.snippet],
              events |-> << NoteOn(endTick, ch, g.note.pitch,
                                   g.note.velocity) >>]
        ELSE [l |-> [l EXCEPT !.noteIsOn = FALSE],
              sn |-> sn,
              events |-> << NoteOff(endTick, ch, l.currentNote) >>]

\* Expiry starting the next note at the tick of the sample
ExpiryRestartsAtCurrentTick(l, sn, tpp, ch) ==
    LET intendedEndTick == l.noteStartTick + l.noteDuration
        nextPhaseTick == (l.currentPhase + 1) * tpp
        endTick == IF tpp > 0 /\ intendedEndTick >= nextPhaseTick
                   THEN nextPhaseTick ELSE intendedEndTick
        inRange == l.currentPhase >= 0 /\ l.currentPhase < Len(sn)
        i == (l.currentPhase % Len(sn)) + 1
        g == GetNextNote(sn[i])
        off == NoteOff(endTick, ch, l.currentNote)
    IN  IF (tpp = 0 \/ endTick < nextPhaseTick) /\ inRange
           /\ g.note # NoNote
        THEN [l |-> [l EXCEPT !.currentNote = g.note.pitch,
                              !.noteDuration = g.note.duration,
                              !.noteStartTick = endTick,
                              !.noteIsOn = TRUE],
              sn |-> [sn EXCEPT ![i] = g.snippet],
              events |-> << off, NoteOn(l.currentTick, ch, g.note.pitch,
                                        g.note.velocity) >>]
        ELSE [l |-> [l EXCEPT !.noteIsOn = FALSE],
              sn |-> sn,
              events |-> << off >>]

\* Expiry stamping the next note with noteStartTick before it is updated
ExpiryRestartsAtOldStart(l, sn, tpp, ch) ==
    LET intendedEndTick == l.noteStartTick + l.noteDuration
        nextPhaseTick == (l.currentPhase + 1) * tpp
        endTick == IF tpp > 0 /\ intendedEndTick >= nextPhaseTick
                   THEN nextPhaseTick ELSE intendedEndTick
        inRange == l.currentPhase >= 0 /\ l.currentPhase < Len(sn)
        i == (l.currentPhase % Len(sn)) + 1
        g == GetNextNote(sn[i])
        off == NoteOff(endTick, ch, l.currentNote)
    IN  IF (tpp = 0 \/ endTick < nextPhaseTick) /\ inRange
           /\ g.note # NoNote
        THEN [l |-> [l EXCEPT !.currentNote = g.note.pitch,
                              !.noteDuration = g.note.duration,
                              !.noteStartTick = endTick,
                              !.noteIsOn = TRUE],
              sn |-> [sn EXCEPT ![i] = g.snippet],
              events |-> << off, NoteOn(l.noteStartTick, ch, g.note.pitch,
                                        g.note.velocity) >>]
        ELSE [l |-> [l EXCEPT !.noteIsOn = FALSE],
              sn |-> sn,
              events |-> << off >>]

\* the sounding note has run its duration: close it, start the next one
\* unless the phase boundary is reached
Expiry(l, sn, tpp, ch) ==
    LET intendedEndTick == l.noteStartTick + l.noteDuration
        nextPhaseTick == (l.currentPhase + 1) * tpp
        endTick == IF tpp > 0 /\ intendedEndTick >= nextPhaseTick
                   THEN nextPhaseTick ELSE intendedEndTick
        inRange == l.currentPhase >= 0 /\ l.currentPhase < Len(sn)
        i == (l.currentPhase % Len(sn)) + 1
        g == GetNextNote(sn[i])
        off == NoteOff(endTick, ch, l.currentNote)
    IN  IF (tpp = 0 \/ endTick < nextPhaseTick) /\ inRange
           /\ g.note # NoNote
        THEN [l |-> [l EXCEPT !.currentNote = g.note.pitch,
                              !.noteDuration = g.note.duration,
                              !.noteStartTick = endTick,
                              !.noteIsOn = TRUE],
              sn |-> [sn EXCEPT ![i] = g.snippet],
              events |-> << off, NoteOn(endTick, ch, g.note.pitch,
                                        g.note.velocity) >>]
        ELSE [l |-> [l EXCEPT !.noteIsOn = FALSE],
              sn |-> sn,
              events |-> << off >>]

MelodicExpiryCS(w) ==
    /\ pc[w] = "expCS"
    /\ LET r == Expiry(st[w], snippets[w],
                       AdjustedTicksPerPhase(durationSec, numPhases),
                       Channel(w))
       IN  /\ AddEvents(w, r.events)
           /\ st' = [st EXCEPT ![w] = r.l]
           /\ snippets' = [snippets EXCEPT ![w] = r.sn]
    /\ midi_mutex' = Unlock(midi_mutex, w)
    /\ pc' = [pc EXCEPT ![w] = "busy"]
    /\ UNCHANGED <<config, clocks, running, mainvars>>

\* the final marker, "Aligned End"
MelodicFinalCS(w) ==
    /\ pc[w] = "finalCS"
    /\ ~st[w].isDrumThread
    /\ AddEvents(w, << Marker(Max(st[w].currentTick,
                                  AdjustedTotalTicks(durationSec, numPhases)),
                              "Aligned End", 0) >>)
    /\ midi_mutex' = Unlock(midi_mutex, w)
    /\ pc' = [pc EXCEPT ![w] = "done"]
    /\ UNCHANGED <<config, clocks, running, mainvars, st, snippets>>

----------------------------------------------------------------------------
(* The program *)

Next ==
    \/ Tick
    \/ Cancel
    \/ Spawn
    \/ Join
    \/ SortTracks
    \/ \E w \in Workers :
          \/ Start(w)
          \/ Acquire(w)
          \/ NameCS(w)
          \/ Busy(w)
          \/ Sleep(w)
          \/ DrumLoop(w)
          \/ DrumPhaseCS(w)
          \/ DrumStepCS(w)
          \/ DrumFinalCS(w)
          \/ MelodicLoop(w)
          \/ MelodicPhaseCS(w)
          \/ MelodicSchedCS(w)
          \/ MelodicExpiryCS(w)
          \/ MelodicExitCS(w)
          \/ MelodicFinalCS(w)

Spec == Init /\ [][Next]_vars

\* the steps of one thread function
WorkerNext(w) ==
    \/ Start(w)
    \/ Acquire(w)
    \/ NameCS(w)
    \/ Busy(w)
    \/ Sleep(w)
    \/ DrumLoop(w)
    \/ DrumPhaseCS(w)
    \/ DrumStepCS(w)
    \/ DrumFinalCS(w)
    \/ MelodicLoop(w)
    \/ MelodicPhaseCS(w)
    \/ MelodicSchedCS(w)
    \/ MelodicExpiryCS(w)
    \/ MelodicExitCS(w)
    \/ MelodicFinalCS(w)

\* main and every thread keep being scheduled, and the wall clock advances.
\* No fairness is asked of Cancel: nobody has to store to running.  Weak
\* fairness is enough for the lock: a thread waiting for midi_mutex has the
\* other threads run into their sleep, where the mutex stays free.
Fairness ==
    /\ WF_vars(Tick)
    /\ WF_vars(Spawn)
    /\ WF_vars(Join)
    /\ WF_vars(SortTracks)
    /\ \A w \in Workers : WF_vars(WorkerNext(w))

SpecFair == Spec /\ Fairness

----------------------------------------------------------------------------
(* Two replays of the rhythm worker                                        *)
(*                                                                         *)
(* Worker 0 and worker 1 are the rhythm workers of two runs with the same  *)
(* duration and phase count; midifile[r] is the drum track of run r.  The  *)
(* runs take their samples at the same wall-clock instants, and each run   *)
(* has a CPU clock of its own, which its scheduling sampler would read.    *)

InitReplay ==
    /\ threadCount = 1
    /\ durationSec \in 1..MaxDuration
    /\ numPhases \in 1..MaxPhases
    /\ now = 0
    /\ running = TRUE
    /\ midi_mutex = NoOne
    /\ midifile = [r \in Workers |->
                     << Event("Tempo", 0, 0, 0, 0, "", TEMPO),
                        Event("TimeSignature", 0, 0, 0, 0, "", 4) >>]
    /\ mainpc = "join"
    /\ created = 1
    /\ joined = 0
    /\ sortCalls = 0
    /\ pc = [r \in Workers |-> "start"]
    /\ st = [r \in Workers |-> [InitialLocals EXCEPT !.isDrumThread = TRUE]]
    /\ snippets = [r \in Workers |-> << >>]

\* both runs have taken their samples at the same instants
SameSamples == \A r, q \in Workers : st[r].wakeAt = st[q].wakeAt

\* wall time passes for both runs once both have sampled the instant or
\* both have slept through it; each run's CPU clock advances on its own,
\* and each run's sampler gets its own scheduling signal
ReplayTick ==
    /\ \A r \in Workers : pc[r] \in {"sleep", "done"}
    /\ \E r \in Workers : pc[r] # "done"
    /\ SameSamples
    /\ now < 1000 * durationSec
    /\ \E dt \in TickSteps :
          /\ now' = now + dt
          /\ \E c \in [Workers -> {0, dt}] :
                st' = [r \in Workers |->
                         [st[r] EXCEPT !.lastCpuTime = @ + c[r],
                                       !.isScheduled = IsScheduled(dt, c[r])]]
    /\ UNCHANGED <<config, running, midi_mutex, midifile, mainvars, pc,
                   snippets>>

NextReplay ==
    \/ ReplayTick
    \/ \E r \in Workers :
          \/ Start(r)
          \/ Acquire(r)
          \/ NameCS(r)
          \/ Busy(r)
          \/ Sleep(r)
          \/ DrumLoop(r)
          \/ DrumPhaseCS(r)
          \/ DrumStepCS(r)
          \/ DrumFinalCS(r)

SpecReplay == InitReplay /\ [][NextReplay]_vars

\* wall time passes for both runs; each run wakes from its sleep at the
\* instants the OS gives it, which need not be those of the other run
ReplayTickApart ==
    /\ \A r \in Workers : pc[r] \in {"sleep", "done"}
    /\ \E r \in Workers : pc[r] # "done"
    /\ now < 1000 * durationSec
    /\ \E dt \in TickSteps : now' = now + dt
    /\ UNCHANGED <<config, running, midi_mutex, midifile, mainvars, pc, st,
                   snippets>>

NextReplayApart ==
    \/ ReplayTickApart
    \/ \E r \in Workers :
          \/ Start(r)
          \/ Acquire(r)
          \/ NameCS(r)
          \/ Busy(r)
          \/ Sleep(r)
          \/ DrumLoop(r)
          \/ DrumPhaseCS(r)
          \/ DrumStepCS(r)
          \/ DrumFinalCS(r)

SpecReplayApart == InitReplay /\ [][NextReplayApart]_vars

----------------------------------------------------------------------------
(* The timing of a run: the prologues of the thread functions              *)
(*                                                                         *)
(* The workers compute their ticks per phase and total ticks from the      *)
(* duration and phase count main() passes on, any positive ints, and then  *)
(* locate their samples in the phases.  The builds differ in TEMPO         *)
(* (main.cpp, include/Constants.h) and in what a conversion of a double    *)
(* outside the range of int yields.                                        *)

\* TEMPO of the single-file build
TEMPO_MONOLITH == 120
Tempos == {TEMPO_MONOLITH, TEMPO}

\* the result of static_cast<int> outside the range of int: the integer
\* indefinite value of cvttsd2si, or the saturated value
ConversionOutcomes == {INT_MIN, INT_MAX}

MaxTimingDuration == 16
MaxTimingPhases == 8
\* a duration and a phase count for which the tick counts leave int
LongDuration == 1500000
ManyPhases == 1200000
TimingDurations == (1 .. MaxTimingDuration) \cup {LongDuration}
TimingPhases == (1 .. MaxTimingPhases) \cup {ManyPhases}

\* the instants, in milliseconds after the start, of the samples followed
TimingSampleMs == {0, 8000, 15999}

\* the denominators of the divisions by ticks per phase and ticks per step
\* that a pass executes
NewPhaseDivisors(tpp) == IF tpp > 0 THEN {tpp} ELSE {}
StepDivisors == IF ticksPerStep > 0 THEN {ticksPerStep} ELSE {}

InitTiming ==
    /\ threadCount = Cardinality(Workers)
    /\ durationSec \in TimingDurations
    /\ numPhases \in TimingPhases
    /\ now = 0
    /\ running = TRUE
    /\ midi_mutex = NoOne
    /\ midifile = [w \in Workers |-> << >>]
    /\ mainpc = "join"
    /\ created = Cardinality(Workers)
    /\ joined = 0
    /\ sortCalls = 0
    /\ pc = [w \in Workers |-> "start"]
    /\ \E tempo \in Tempos, ub \in ConversionOutcomes :
          st = [w \in Workers |->
                  [tempo |-> tempo, ub |-> ub, ticksPerPhase |-> 0,
                   totalTicks |-> 0, divisors |-> {}]
                  @@ [InitialLocals EXCEPT !.isDrumThread = (w = 0)]]
    /\ snippets = [w \in Workers |-> << >>]

\* drumThreadFunction: ticksPerPhase, totalTicks
DrumTiming(w) ==
    /\ pc[w] = "start"
    /\ st[w].isDrumThread
    /\ st' = [st EXCEPT
                ![w].ticksPerPhase =
                    DrumTicksPerPhaseAt(st[w].tempo, durationSec, numPhases,
                                        st[w].ub),
                ![w].totalTicks =
                    TotalTicksAt(st[w].tempo, durationSec, st[w].ub)]
    /\ pc' = [pc EXCEPT ![w] = "loop"]
    /\ UNCHANGED <<config, clocks, running, midi_mutex, midifile, mainvars,
                   snippets>>

\* melodicThreadFunction: adjustedTicksPerPhase, adjustedTotalTicks
MelodicTiming(w) ==
    /\ pc[w] = "start"
    /\ ~st[w].isDrumThread
    /\ st' = [st EXCEPT
                ![w].ticksPerPhase =
                    AdjustedTicksPerPhaseAt(st[w].tempo, durationSec,
                                            numPhases, st[w].ub),
                ![w].totalTicks =
                    AdjustedTotalTicksAt(st[w].tempo, durationSec, numPhases,
                                         st[w].ub)]
    /\ pc' = [pc EXCEPT ![w] = "loop"]
    /\ UNCHANGED <<config, clocks, running, midi_mutex, midifile, mainvars,
                   snippets>>

\* currentTick of a sample ms after the start
TimingTick(l, ms) ==
    CastInt(MulDiv(ms, TicksPerSecondAt(l.tempo), 1000), l.ub)

\* a pass of the drum loop up to its step position: duration check, tick,
\* phase and, on a phase change, the marker and crash
DrumTimingPass(w) ==
    /\ pc[w] = "loop"
    /\ st[w].isDrumThread
    /\ \E ms \in TimingSampleMs :
          LET l == st[w]
              tick == TimingTick(l, ms)
              newPhase == NewPhase(tick, l.ticksPerPhase, numPhases)
          IN  /\ ~DrumFinished(ms, durationSec)
              /\ tick >= l.currentTick
              /\ midifile' = [midifile EXCEPT ![w] =
                     IF newPhase # l.currentPhase
                     THEN @ \o DrumPhaseEvents(newPhase, l.ticksPerPhase)
                     ELSE @]
              /\ st' = [st EXCEPT
                          ![w].currentTick = tick,
                          ![w].currentPhase = newPhase,
                          ![w].divisors = @ \cup NewPhaseDivisors(l.ticksPerPhase)
                                            \cup StepDivisors]
    /\ UNCHANGED <<config, clocks, running, midi_mutex, mainvars, pc,
                   snippets>>

\* a pass of the melodic loop up to the end of its phase-change block
MelodicTimingPass(w) ==
    /\ pc[w] = "loop"
    /\ ~st[w].isDrumThread
    /\ \E ms \in TimingSampleMs :
          LET l == st[w]
              tick == TimingTick(l, ms)
              l2 == [l EXCEPT !.currentTick = tick]
              newPhase == NewPhase(tick, l.ticksPerPhase, numPhases)
              r == PhaseChange(l2, snippets[w], l.ticksPerPhase, numPhases,
                               Channel(w))
          IN  \* currentWallTime < adjustedDurationSec
              /\ tick < l.totalTicks
              /\ tick >= l.currentTick
              /\ midifile' = [midifile EXCEPT ![w] =
                     IF newPhase # l.currentPhase THEN @ \o r.events ELSE @]
              /\ st' = [st EXCEPT
                          ![w] = [(IF newPhase # l.currentPhase
                                   THEN r.l ELSE l2)
                                  EXCEPT !.divisors =
                                     @ \cup NewPhaseDivisors(l.ticksPerPhase)]]
    /\ UNCHANGED <<config, clocks, running, midi_mutex, mainvars, pc,
                   snippets>>

NextTiming ==
    \E w \in Workers :
        \/ DrumTiming(w)
        \/ MelodicTiming(w)
        \/ DrumTimingPass(w)
        \/ MelodicTimingPass(w)

SpecTiming == InitTiming /\ [][NextTiming]_vars

----------------------------------------------------------------------------
(* The scheduling sampler of a melodic worker                              *)
(*                                                                         *)
(* Successive passes of the loop head with the clock readings the sampler  *)
(* can meet: wall-clock readings that repeat or step back (the clock is    *)
(* read in milliseconds and need not be steady) and CPU-clock readings     *)
(* that never decrease.                                                    *)

\* currentWallTime and getCpuTime() readings, in milliseconds
SamplerWallMs == {0, 667, 1000, 1667, 2000, 3000, 4000}
SamplerCpuMs == {0, 1, 2, 3, 4, 5, 672}

InitSampler ==
    /\ threadCount = Cardinality(Workers)
    /\ durationSec = 1
    /\ numPhases = 1
    /\ now = 0
    /\ running = TRUE
    /\ midi_mutex = NoOne
    /\ midifile = [w \in Workers |-> << >>]
    /\ mainpc = "join"
    /\ created = Cardinality(Workers)
    /\ joined = 0
    /\ sortCalls = 0
    /\ pc = [w \in Workers |-> IF w = 0 THEN "done" ELSE "loop"]
    /\ \E cpu \in SamplerCpuMs :
          st = [w \in Workers |->
                  [ratioDivided |-> FALSE]
                  @@ [InitialLocals EXCEPT !.isDrumThread = (w = 0),
                                           !.lastCpuTime = cpu]]
    /\ snippets = [w \in Workers |-> << >>]

\* the sampler's part of a pass: the two clock readings, the deltas, the
\* ratio, isScheduled, and the readings kept for the next pass
SamplerPass(w) ==
    /\ pc[w] = "loop"
    /\ ~st[w].isDrumThread
    /\ \E currentWallTime \in SamplerWallMs, currentCpuTime \in SamplerCpuMs :
          LET wallTimeDelta == currentWallTime - st[w].lastWallTime
              cpuTimeDelta == currentCpuTime - st[w].lastCpuTime
          IN  /\ cpuTimeDelta >= 0
              /\ st' = [st EXCEPT
                          ![w].isScheduled =
                              IsScheduled(wallTimeDelta, cpuTimeDelta),
                          ![w].ratioDivided =
                              SchedulingRatio(wallTimeDelta,
                                              cpuTimeDelta).divided,
                          ![w].lastWallTime = currentWallTime,
                          ![w].lastCpuTime = currentCpuTime]
    /\ UNCHANGED <<config, clocks, running, midi_mutex, midifile, mainvars,
                   pc, snippets>>

NextSampler == \E w \in Workers : SamplerPass(w)

SpecSampler == InitSampler /\ [][NextSampler]_vars

----------------------------------------------------------------------------
(* The rhythm worker on a finer clock                                      *)
(*                                                                         *)
(* The rhythm worker runs alone and the clock is followed in steps shorter *)
(* than a step of its grid (ticksPerStep ticks take a third of a second),  *)
(* so that consecutive samples fall in the same step and samples fall     *)
(* between the points of the grid.                                         *)

FineSteps == {167, 250}

InitGrid == Init /\ threadCount = 1

FineTick ==
    /\ ~AllDone
    /\ Quiescent
    /\ now < Horizon
    /\ \E dt \in FineSteps : now' = now + dt
    /\ UNCHANGED <<config, running, midi_mutex, midifile, mainvars, pc, st,
                   snippets>>

NextGrid ==
    \/ FineTick
    \/ Spawn
    \/ Join
    \/ SortTracks
    \/ \E w \in Workers :
          \/ Start(w)
          \/ Acquire(w)
          \/ NameCS(w)
          \/ Busy(w)
          \/ Sleep(w)
          \/ DrumLoop(w)
          \/ DrumPhaseCS(w)
          \/ DrumStepCS(w)
          \/ DrumFinalCS(w)

SpecGrid == InitGrid /\ [][NextGrid]_vars

----------------------------------------------------------------------------
(* Properties *)

Tracks == {t \in Workers : t < threadCount}
MelodicWorkers == {w \in Tracks : w # 0}

IsNote(e) == e.kind \in {"NoteOn", "NoteOff"}

\* the NoteOn/NoteOff events of a list on one channel, in the list's order
NotesOn(events, ch) ==
    SelectSeq(events, LAMBDA e : IsNote(e) /\ e.channel = ch)

ChannelsOf(events) == {events[i].channel : i \in DOMAIN events}

\* between two consecutive NoteOns of s there is exactly one event, a
\* NoteOff of the pitch of the first
Alternates(s) ==
    LET ons == {i \in DOMAIN s : s[i].kind = "NoteOn"}
    IN  \A i \in ons :
            (\E j \in ons : j > i)
            => ( /\ i + 2 \in ons
                 /\ s[i + 1].kind = "NoteOff"
                 /\ s[i + 1].pitch = s[i].pitch )

NoteOnCount(events) ==
    Cardinality({i \in DOMAIN events : events[i].kind = "NoteOn"})

\* C1: in the order a worker appends its events (its track before the
\* sort), between any two consecutive NoteOns on one channel there is
\* exactly one NoteOff, and it has the pitch of the first NoteOn
C1_NotesAlternate ==
    sortCalls = 0 =>
        \A t \in Tracks : \A ch \in ChannelsOf(midifile[t]) :
            Alternates(NotesOn(midifile[t], ch))

\* a melodic worker and the drum worker have each appended two notes
C1_Witness ==
    /\ sortCalls = 0
    /\ threadCount = 2
    /\ NoteOnCount(midifile[0]) >= 2
    /\ NoteOnCount(midifile[1]) >= 2

\* every NoteOn of the list has a later NoteOff of its channel and pitch
AllNotesClosed(events) ==
    \A i \in DOMAIN events :
        events[i].kind = "NoteOn" =>
            \E j \in DOMAIN events :
                /\ j > i
                /\ events[j].kind = "NoteOff"
                /\ events[j].channel = events[i].channel
                /\ events[j].pitch = events[i].pitch

\* C2: once every worker has terminated, by the duration check or by the
\* running flag, no track holds a NoteOn without a later-appended NoteOff
\* of the same channel and pitch
C2_NoUnmatchedNoteOn ==
    (AllDone /\ sortCalls = 0) => \A t \in Tracks : AllNotesClosed(midifile[t])

Last(events) == events[Len(events)]

\* the pitch of the last NoteOn of a list
LastNoteOnPitch(events) ==
    LET on == SelectSeq(events, LAMBDA e : e.kind = "NoteOn")
    IN  IF on = << >> THEN -1 ELSE Last(on).pitch

\* C3: when the duration check of a melodic worker fires while a note
\* sounds, the worker appends exactly one event before it leaves the loop,
\* the NoteOff of the sounding pitch at adjustedTotalTicks, and it appends
\* no NoteOn afterwards
C3_ClosingNoteOff ==
    [][\A w \in MelodicWorkers :
        LET ms == now - st[w].startWallTime
            closing == NoteOff(AdjustedTotalTicks(durationSec, numPhases),
                               Channel(w), LastNoteOnPitch(midifile[w]))
        IN  /\ ( /\ pc[w] = "loop" /\ pc'[w] # "loop"
                 /\ running
                 /\ MelodicFinished(ms, durationSec, numPhases)
                 /\ st[w].noteIsOn )
               => (pc'[w] = "exitLock" /\ midifile'[w] = midifile[w])
            /\ pc[w] = "exitLock" => midifile'[w] = midifile[w]
            /\ (pc[w] = "exitCS" /\ pc'[w] # "exitCS")
               => ( /\ pc'[w] = "finalLock"
                    /\ midifile'[w] = Append(midifile[w], closing) )
            /\ (pc[w] \in {"finalLock", "finalCS", "done"})
               => NoteOnCount(midifile'[w]) = NoteOnCount(midifile[w])
      ]_vars

\* a melodic worker has left its loop through the duration check with a
\* note sounding and has appended the closing NoteOff
C3_Witness ==
    \E w \in MelodicWorkers :
        /\ pc[w] = "finalLock"
        /\ running
        /\ st[w].noteIsOn
        /\ Last(midifile[w]) =
             NoteOff(AdjustedTotalTicks(durationSec, numPhases), Channel(w),
                     st[w].currentNote)

\* C4: an append to the MidiFile while workers run is made by the worker
\* that holds midi_mutex in its append section, and no two workers are in
\* an append section at once
C4_AppendsUnderLock ==
    /\ [](\A w \in Workers :
            /\ pc[w] \in CriticalPcs => midi_mutex = w
            /\ \A v \in Workers :
                 (pc[w] \in CriticalPcs /\ pc[v] \in CriticalPcs) => v = w)
    /\ [][\A t \in Workers :
            (midifile'[t] # midifile[t] /\ mainpc # "sort")
               => (midi_mutex = t /\ pc[t] \in CriticalPcs)]_vars

\* one worker is in its append section while the other waits for the lock
C4_Witness ==
    \E w, v \in Workers :
        /\ w # v
        /\ pc[w] \in CriticalPcs
        /\ pc[v] \in LockPcs
        /\ midi_mutex = w

\* C5: a worker in its busy-work loop or in its sleep does not hold
\* midi_mutex
C5_NoLockWhileBusyOrAsleep ==
    \A w \in Workers : pc[w] \in {"busy", "sleep"} => midi_mutex # w

\* a worker that has appended is in its busy-work loop or asleep while the
\* other worker holds the lock
C5_Witness ==
    \E w, v \in Workers :
        /\ w # v
        /\ pc[w] \in {"busy", "sleep"}
        /\ NoteOnCount(midifile[w]) >= 1
        /\ midi_mutex = v

\* C6: sortTracks is called once, only when every worker has terminated
\* and been joined, and no worker appends once main is past its joins
C6_FinalizeOnceAfterJoin ==
    [][/\ sortCalls' # sortCalls
          => ( /\ sortCalls = 0 /\ sortCalls' = 1
               /\ AllDone
               /\ joined = threadCount )
       /\ mainpc = "sort" => (AllDone /\ midifile' # midifile => sortCalls' = 1)
       /\ mainpc = "done" => (midifile' = midifile /\ sortCalls' = sortCalls)
      ]_vars

\* main has sorted the tracks of a run with two workers
C6_Witness ==
    /\ mainpc = "done"
    /\ sortCalls = 1
    /\ threadCount = 2
    /\ \A t \in Tracks : NoteOnCount(midifile[t]) >= 1

TicksOf(events) == {events[i].tick : i \in DOMAIN events}

\* `sorted` is `events` in non-decreasing tick order, events of equal tick
\* in their order in `events`
IsStableSortOf(sorted, events) ==
    /\ Len(sorted) = Len(events)
    /\ \A i \in 1..(Len(sorted) - 1) : sorted[i].tick <= sorted[i + 1].tick
    /\ \A v \in TicksOf(events) \cup TicksOf(sorted) :
          SelectSeq(sorted, LAMBDA e : e.tick = v)
            = SelectSeq(events, LAMBDA e : e.tick = v)

\* C7: the sort leaves each track in non-decreasing tick order, events of
\* equal tick in the order in which they were appended
C7_StableSortByTick ==
    [][sortCalls' # sortCalls
          => \A t \in Workers : IsStableSortOf(midifile'[t], midifile[t])]_vars

\* the sort has run on a drum track whose hits were appended out of tick
\* order and share ticks
C7_Witness ==
    /\ sortCalls = 1
    /\ Len(midifile[0]) >= 8
    /\ \E i, j \in DOMAIN midifile[0] :
          /\ i < j
          /\ midifile[0][i].tick = midifile[0][j].tick
          /\ midifile[0][i].kind = "NoteOn"
          /\ midifile[0][j].kind = "NoteOn"

IsPhaseMarker(e) == e.kind = "Marker" /\ e.text = "Phase"

\* C8: on each worker's track the ticks of the phase Markers increase
\* strictly with the phase number
C8_MarkerTicksIncrease ==
    \A t \in Tracks :
        LET markers == {i \in DOMAIN midifile[t] : IsPhaseMarker(midifile[t][i])}
        IN  \A i, j \in markers :
                midifile[t][i].num < midifile[t][j].num
                => midifile[t][i].tick < midifile[t][j].tick

\* the drum worker and a melodic worker have each marked two phases
C8_Witness ==
    /\ threadCount = 2
    /\ \A t \in Tracks :
          \E i, j \in DOMAIN midifile[t] :
              /\ IsPhaseMarker(midifile[t][i]) /\ midifile[t][i].num = 1
              /\ IsPhaseMarker(midifile[t][j]) /\ midifile[t][j].num = 2

\* C9: a worker's current phase never decreases
C9_PhaseNeverDecreases ==
    [][\A w \in Workers :
          st'[w].currentPhase >= st[w].currentPhase]_vars

\* a melodic worker in its second phase has sampled again after entering it
C9_Witness ==
    \E w \in MelodicWorkers :
        /\ st[w].currentPhase = 1
        /\ st[w].currentTick > AdjustedTicksPerPhase(durationSec, numPhases)
        /\ pc[w] = "busy"

\* C10: two runs of the rhythm worker that sample the wall clock at the
\* same instants append the same events, whatever CPU time each run reads
C10_DrumIgnoresCpuTime ==
    ( \/ SameSamples /\ \A r \in Workers : pc[r] = "sleep"
      \/ \A r \in Workers : pc[r] = "done" )
    => \A r, q \in Workers : midifile[r] = midifile[q]

\* both runs have played pattern hits after samples at which one run was
\* scheduled and the other was not
C10_Witness ==
    /\ \A r \in Workers : pc[r] = "sleep" /\ NoteOnCount(midifile[r]) >= 3
    /\ SameSamples
    /\ now > 0
    /\ st[0].isScheduled # st[1].isScheduled
    /\ st[0].lastCpuTime # st[1].lastCpuTime

\* C11: two runs of the rhythm worker with the same duration and phase
\* count end with the same rhythm track, whatever the instants at which
\* each run takes its samples
C11_SameConfigSameTrack ==
    (\A r \in Workers : pc[r] = "done")
    => \A r, q \in Workers : midifile[r] = midifile[q]

\* the melodic workers that have computed their timing
TimedMelodic == {w \in Workers : ~st[w].isDrumThread /\ pc[w] = "loop"}

\* C12: for every positive duration and phase count a melodic worker's
\* adjustedTicksPerPhase is a multiple of one bar, at least one bar, and
\* its adjustedTotalTicks is a multiple of one bar
C12_BarAligned ==
    \A w \in TimedMelodic :
        /\ st[w].ticksPerPhase % ticksPerBar = 0
        /\ st[w].ticksPerPhase >= ticksPerBar
        /\ st[w].totalTicks % ticksPerBar = 0

\* C13: with a duration of 16 s, 2 phases, TPQ = 480 and a tempo of 120 the
\* rhythm worker's totalTicks is 15360, its ticksPerPhase is 7680, and its
\* marker of the second phase is at tick 7680
C13_ScenarioTicks ==
    ( /\ durationSec = 16
      /\ numPhases = 2
      /\ st[0].tempo = 120
      /\ TPQ = 480
      /\ st[0].isDrumThread
      /\ pc[0] = "loop" )
    => /\ st[0].totalTicks = 15360
       /\ st[0].ticksPerPhase = 7680
       /\ \A i \in DOMAIN midifile[0] :
              (IsPhaseMarker(midifile[0][i]) /\ midifile[0][i].num = 2)
              => midifile[0][i].tick = 7680

\* the rhythm worker of the scenario has marked its second phase
C13_Witness ==
    /\ durationSec = 16
    /\ numPhases = 2
    /\ st[0].tempo = 120
    /\ st[0].isDrumThread
    /\ pc[0] = "loop"
    /\ \E i \in DOMAIN midifile[0] :
          IsPhaseMarker(midifile[0][i]) /\ midifile[0][i].num = 2

\* C14: from one sample to the next the sampler reports scheduled exactly
\* when the wall-time delta is positive and the CPU-time delta is more than
\* SCHEDULE_THRESHOLD of it; with a wall-time delta of zero or less it
\* reports unscheduled and divides nothing
C14_SamplerReport ==
    [][\A w \in Workers :
          st'[w] # st[w] =>
              LET wallDelta == st'[w].lastWallTime - st[w].lastWallTime
                  cpuDelta == st'[w].lastCpuTime - st[w].lastCpuTime
              IN  /\ st'[w].isScheduled <=>
                        (wallDelta > 0
                            /\ cpuDelta * SCHEDULE_THRESHOLD_INV > wallDelta)
                  /\ wallDelta <= 0 =>
                        (~st'[w].isScheduled /\ ~st'[w].ratioDivided)]_vars

\* a sample at a wall-clock reading of 1000 ms, not later than the reading
\* before it: it reported unscheduled and divided nothing
C14_Witness ==
    \E w \in Workers :
        /\ ~st[w].isDrumThread
        /\ st[w].lastWallTime = 1000
        /\ st[w].lastCpuTime = 672
        /\ ~st[w].isScheduled
        /\ ~st[w].ratioDivided

\* C15: when the snippet of a melodic worker's phase has one note, every
\* expiry of the sounding note appends its NoteOff and a NoteOn of the same
\* pitch, leaves the note sounding and the snippet's cursor at 0
C15_SingleNoteReissued ==
    [][\A w \in MelodicWorkers :
          LET ph == st[w].currentPhase IN
          ( /\ pc[w] = "expCS"
            /\ pc'[w] = "busy"
            /\ ph >= 0
            /\ ph < Len(snippets[w])
            /\ Len(snippets[w][ph + 1].notes) = 1 )
          => LET note == snippets[w][ph + 1].notes[1]
                 n == Len(midifile[w])
             IN  /\ Len(midifile'[w]) = n + 2
                 /\ SubSeq(midifile'[w], 1, n) = midifile[w]
                 /\ midifile'[w][n + 1].kind = "NoteOff"
                 /\ midifile'[w][n + 1].pitch = st[w].currentNote
                 /\ midifile'[w][n + 2].kind = "NoteOn"
                 /\ midifile'[w][n + 2].pitch = note.pitch
                 /\ note.pitch = st[w].currentNote
                 /\ st'[w].noteIsOn
                 /\ st'[w].currentNote = note.pitch
                 /\ snippets'[w][ph + 1].currentNoteIndex = 0]_vars

\* a worker with one-note snippets has re-issued its note after an expiry:
\* a NoteOff followed at the same tick by a NoteOn of the same pitch
C15_Witness ==
    \E w \in MelodicWorkers :
        /\ \A k \in DOMAIN snippets[w] : Len(snippets[w][k].notes) = 1
        /\ \E i \in DOMAIN midifile[w] :
              /\ i + 1 \in DOMAIN midifile[w]
              /\ midifile[w][i].kind = "NoteOff"
              /\ midifile[w][i + 1].kind = "NoteOn"
              /\ midifile[w][i + 1].pitch = midifile[w][i].pitch
              /\ midifile[w][i + 1].tick = midifile[w][i].tick

InEmptyPhase(w) ==
    /\ st[w].currentPhase >= 0
    /\ st[w].currentPhase < Len(snippets[w])
    /\ snippets[w][st[w].currentPhase + 1].notes = << >>

\* C17: while the snippet of the current phase has no notes the worker is
\* silent; a false->true scheduling edge appends nothing, leaves it silent
\* and lets the pass go on to its busy work, and no step of the worker
\* appends a NoteOn
C17_EmptySnippetSilent ==
    [][\A w \in MelodicWorkers :
          InEmptyPhase(w) =>
              /\ ~st[w].noteIsOn
              /\ \A i \in (Len(midifile[w]) + 1)..Len(midifile'[w]) :
                     midifile'[w][i].kind # "NoteOn"
              /\ ( pc[w] = "schedCS" /\ pc'[w] # "schedCS"
                   /\ st[w].isScheduled /\ ~st[w].wasScheduled )
                 => /\ midifile'[w] = midifile[w]
                    /\ ~st'[w].noteIsOn
                    /\ st'[w].wasScheduled
                    /\ pc'[w] = "busy"]_vars

\* a worker in a phase without notes has taken a false->true scheduling
\* edge and gone on to a later pass of its loop
C17_Witness ==
    \E w \in MelodicWorkers :
        /\ InEmptyPhase(w)
        /\ st[w].wasScheduled
        /\ pc[w] = "loop"
        /\ st[w].lastWallTime > 0

\* C18: for a duration and a phase count of at least 1, every division by
\* ticks per phase or ticks per step that a worker has executed had a
\* denominator of at least 1, and the drum worker's ticksPerPhase is at
\* least 1, also when totalTicks < numPhases
C18_DivisorsPositive ==
    (durationSec >= 1 /\ numPhases >= 1) =>
        \A w \in Workers :
            /\ \A x \in st[w].divisors : x >= 1
            /\ (st[w].isDrumThread /\ pc[w] = "loop")
                  => st[w].ticksPerPhase >= 1

\* the drum worker, run with more phases than its duration has ticks, has
\* divided a later tick by its ticksPerPhase of 1 and by ticksPerStep
C18_Witness ==
    /\ durationSec >= 1
    /\ numPhases > st[0].totalTicks
    /\ st[0].totalTicks > 0
    /\ pc[0] = "loop"
    /\ st[0].ticksPerPhase = 1
    /\ st[0].currentTick > 0
    /\ st[0].divisors = {1, ticksPerStep}

\* C19: when the wall clock advances and main and every thread keep being
\* scheduled, every thread function returns, main's joins all return and
\* sortTracks is executed
C19_RunFinishes ==
    <>( /\ AllDone
        /\ joined = threadCount
        /\ sortCalls = 1
        /\ mainpc = "done" )

\* a run of two threads that nobody cancelled has been sorted after its
\* duration has elapsed
C19_Witness ==
    /\ threadCount = 2
    /\ running
    /\ AllDone
    /\ joined = threadCount
    /\ sortCalls = 1
    /\ now >= 1000 * durationSec

\* C20: a phase-change block entered while a note sounds appends one
\* NoteOff of the sounding pitch at max(noteStartTick, newPhase *
\* adjustedTicksPerPhase), then the phase marker, and nothing else; the
\* worker is silent when the block is left, that is before the
\* scheduling-edge rule of the same pass is evaluated
C20_PhaseChangeClosesNote ==
    [][\A w \in MelodicWorkers :
          ( pc[w] = "phaseCS" /\ pc'[w] # "phaseCS" /\ st[w].noteIsOn ) =>
              LET tpp == AdjustedTicksPerPhase(durationSec, numPhases)
                  newPhase == NewPhase(st[w].currentTick, tpp, numPhases)
                  boundary == newPhase * tpp
              IN  /\ midifile'[w] = midifile[w] \o
                        << NoteOff(Max(st[w].noteStartTick, boundary),
                                   Channel(w), st[w].currentNote),
                           Marker(boundary, "Phase", newPhase + 1) >>
                  /\ ~st'[w].noteIsOn
                  /\ ~st'[w].wasScheduled
                  /\ st'[w].currentPhase = newPhase
                  /\ st'[w].currentTick = st[w].currentTick
                  /\ pc'[w] = IF st'[w].isScheduled THEN "schedLock"
                                                    ELSE "busy"]_vars

\* a melodic worker has closed a sounding note at the boundary of its
\* second phase, the NoteOff directly before the marker of that phase, and
\* is at the scheduling-edge rule of that pass
C20_Witness ==
    \E w \in MelodicWorkers :
        /\ pc[w] = "schedLock"
        /\ st[w].currentPhase = 1
        /\ ~st[w].noteIsOn
        /\ LET n == Len(midifile[w])
           IN  /\ n >= 2
               /\ midifile[w][n].kind = "Marker"
               /\ midifile[w][n].num = 2
               /\ midifile[w][n - 1].kind = "NoteOff"
               /\ midifile[w][n - 1].tick = midifile[w][n].tick
               /\ midifile[w][n - 1].pitch = st[w].currentNote

\* the indices of the NoteOns that a track holds after index m and before
\* the next phase marker
NoteOnsOfPhaseAt(events, m) ==
    LET later == {k \in DOMAIN events :
                     k > m /\ IsPhaseMarker(events[k])}
    IN  {i \in DOMAIN events :
            /\ i > m
            /\ events[i].kind = "NoteOn"
            /\ \A k \in later : i < k}

\* C21: in the order a melodic worker appends its events, the first NoteOn
\* after the marker of a phase has the pitch and velocity of note 0 of
\* that phase's snippet
C21_FirstNoteOfPhase ==
    sortCalls = 0 =>
        \A w \in MelodicWorkers :
            \A m \in DOMAIN midifile[w] :
                IsPhaseMarker(midifile[w][m]) =>
                    LET ons == NoteOnsOfPhaseAt(midifile[w], m)
                        snippet == snippets[w][midifile[w][m].num]
                    IN  \A i \in ons :
                            (\A k \in ons : i <= k) =>
                                /\ snippet.notes # << >>
                                /\ midifile[w][i].pitch
                                     = snippet.notes[1].pitch
                                /\ midifile[w][i].velocity
                                     = snippet.notes[1].velocity

\* a worker with phrases of two notes has started a note in its second
\* phase, after a note of its first phase
C21_Witness ==
    \E w \in MelodicWorkers :
        /\ sortCalls = 0
        /\ \A k \in DOMAIN snippets[w] : Len(snippets[w][k].notes) = 2
        /\ \E m, n \in DOMAIN midifile[w] :
              /\ IsPhaseMarker(midifile[w][m]) /\ midifile[w][m].num = 1
              /\ IsPhaseMarker(midifile[w][n]) /\ midifile[w][n].num = 2
              /\ NoteOnsOfPhaseAt(midifile[w], m) # {}
              /\ NoteOnsOfPhaseAt(midifile[w], n) # {}

\* the ticks per phase a worker divides by: raw for the rhythm worker,
\* bar-aligned for a melodic worker
TicksPerPhaseOf(w) ==
    IF st[w].isDrumThread THEN DrumTicksPerPhase(durationSec, numPhases)
    ELSE AdjustedTicksPerPhase(durationSec, numPhases)

\* C22: a worker's current phase changes only in its phase-transition
\* block, the first entry into phase 0 included; the block appends exactly
\* one Marker, labelled with the new phase and at the tick newPhase *
\* ticksPerPhase, and no track holds two phase Markers of the same phase
C22_OneMarkerPerTransition ==
    [][\A w \in Tracks :
          LET tpp == TicksPerPhaseOf(w)
              newPhase == NewPhase(st[w].currentTick, tpp, numPhases)
              added == SubSeq(midifile'[w], Len(midifile[w]) + 1,
                              Len(midifile'[w]))
              markers == {i \in DOMAIN added : added[i].kind = "Marker"}
              phaseMarkers == {i \in DOMAIN midifile'[w] :
                                  IsPhaseMarker(midifile'[w][i])}
          IN  /\ st'[w].currentPhase # st[w].currentPhase
                    => pc[w] = "phaseCS"
              /\ (pc[w] = "phaseCS" /\ pc'[w] # "phaseCS") =>
                    /\ newPhase # st[w].currentPhase
                    /\ st'[w].currentPhase = newPhase
                    /\ Cardinality(markers) = 1
                    /\ \A i \in markers :
                          added[i] = Marker(newPhase * tpp, "Phase",
                                            newPhase + 1)
              /\ \A i, j \in phaseMarkers :
                    midifile'[w][i].num = midifile'[w][j].num => i = j]_vars

\* both workers have entered their second phase, the rhythm worker at a
\* sample past the boundary and the melodic worker with a note sounding
C22_Witness ==
    /\ threadCount = 2
    /\ \A w \in Tracks :
          /\ st[w].currentPhase = 1
          /\ \E i \in DOMAIN midifile[w] :
                /\ IsPhaseMarker(midifile[w][i])
                /\ midifile[w][i].num = 2
                /\ midifile[w][i].tick = TicksPerPhaseOf(w)
    /\ st[0].currentTick > TicksPerPhaseOf(0)
    /\ \E i \in DOMAIN midifile[1] :
          /\ i > 1
          /\ IsPhaseMarker(midifile[1][i])
          /\ midifile[1][i - 1].kind = "NoteOff"
          /\ midifile[1][i - 1].tick = midifile[1][i].tick

\* C23: a scheduling-edge block that appends a NoteOn was entered with the
\* signal scheduled, the recorded signal unscheduled, no note sounding and
\* the current tick below the next phase boundary; it appends that NoteOn
\* alone, for the note at the cursor of the current phase's snippet and at
\* the current tick, and leaves the note sounding
C23_EdgeStartsNote ==
    [][\A w \in MelodicWorkers :
          LET l == st[w]
              n == Len(midifile[w])
              tpp == AdjustedTicksPerPhase(durationSec, numPhases)
          IN  ( /\ pc[w] = "schedCS"
                /\ pc'[w] # "schedCS"
                /\ \E i \in (n + 1)..Len(midifile'[w]) :
                      midifile'[w][i].kind = "NoteOn" )
              => /\ l.isScheduled
                 /\ ~l.wasScheduled
                 /\ ~l.noteIsOn
                 /\ l.currentTick < (l.currentPhase + 1) * tpp
                 /\ l.currentPhase >= 0
                 /\ l.currentPhase < Len(snippets[w])
                 /\ LET snippet == snippets[w][l.currentPhase + 1]
                        note == snippet.notes[snippet.currentNoteIndex + 1]
                    IN  /\ midifile'[w] = Append(midifile[w],
                               NoteOn(l.currentTick, Channel(w), note.pitch,
                                      note.velocity))
                        /\ st'[w].noteIsOn
                        /\ st'[w].wasScheduled
                        /\ st'[w].currentNote = note.pitch
                        /\ st'[w].noteStartTick = l.currentTick
                        /\ st'[w].noteDuration = note.duration]_vars

\* a worker has left a scheduling-edge block with the NoteOn it appended
\* there, stamped with a tick inside its phase
C23_Witness ==
    \E w \in MelodicWorkers :
        /\ pc[w] = "busy"
        /\ st[w].noteIsOn
        /\ st[w].wasScheduled
        /\ st[w].noteStartTick = st[w].currentTick
        /\ st[w].currentTick
             > st[w].currentPhase
                 * AdjustedTicksPerPhase(durationSec, numPhases)
        /\ Last(midifile[w]).kind = "NoteOn"
        /\ Last(midifile[w]).tick = st[w].currentTick

\* C24: a scheduling-edge block entered unscheduled with a note sounding
\* appends the NoteOff of the sounding pitch at the current tick, or at
\* the next phase boundary when the current tick has reached it, and
\* nothing else; the note no longer sounds and the pass goes on to its
\* busy work, so the sample appends no NoteOn
C24_EdgeStopsNote ==
    [][\A w \in MelodicWorkers :
          LET l == st[w]
              tpp == AdjustedTicksPerPhase(durationSec, numPhases)
              nextPhaseTick == (l.currentPhase + 1) * tpp
              endTick == IF l.currentTick >= nextPhaseTick
                         THEN nextPhaseTick ELSE l.currentTick
          IN  ( /\ pc[w] = "schedCS"
                /\ pc'[w] # "schedCS"
                /\ ~l.isScheduled
                /\ l.noteIsOn )
              => /\ l.wasScheduled
                 /\ midifile'[w] = Append(midifile[w],
                        NoteOff(endTick, Channel(w), l.currentNote))
                 /\ ~st'[w].noteIsOn
                 /\ ~st'[w].wasScheduled
                 /\ pc'[w] = "busy"]_vars

\* a worker that found itself descheduled has closed its note at the tick
\* of that sample, later than the end of the note's duration
C24_Witness ==
    \E w \in MelodicWorkers :
        /\ pc[w] = "busy"
        /\ ~st[w].noteIsOn
        /\ ~st[w].isScheduled
        /\ ~st[w].wasScheduled
        /\ Last(midifile[w]).kind = "NoteOff"
        /\ Last(midifile[w]).tick = st[w].currentTick
        /\ Last(midifile[w]).pitch = st[w].currentNote
        /\ st[w].currentTick > st[w].noteStartTick + st[w].noteDuration

\* C25: the expiry block is entered without a scheduling edge, scheduled,
\* with a note sounding whose duration has elapsed; it appends the NoteOff
\* of that note at noteStartTick + noteDuration and then the NoteOn of the
\* snippet's next note, cyclically, at the same tick, and the new note
\* sounds from that tick
C25_ExpiryGapless ==
    [][\A w \in MelodicWorkers :
          LET l == st[w]
              endTick == l.noteStartTick + l.noteDuration
          IN  ( pc[w] = "expCS" /\ pc'[w] # "expCS" )
              => /\ l.isScheduled
                 /\ l.wasScheduled
                 /\ l.noteIsOn
                 /\ l.currentTick - l.noteStartTick >= l.noteDuration
                 /\ LET snippet == snippets[w][l.currentPhase + 1]
                        cursor == snippet.currentNoteIndex
                        note == snippet.notes[cursor + 1]
                    IN  /\ midifile'[w] = midifile[w] \o
                               << NoteOff(endTick, Channel(w), l.currentNote),
                                  NoteOn(endTick, Channel(w), note.pitch,
                                         note.velocity) >>
                        /\ snippets'[w][l.currentPhase + 1].currentNoteIndex
                             = (cursor + 1) % Len(snippet.notes)
                        /\ st'[w].noteIsOn
                        /\ st'[w].currentNote = note.pitch
                        /\ st'[w].noteStartTick = endTick
                        /\ st'[w].noteDuration = note.duration]_vars

\* a worker with phrases of two notes has followed an expired note by the
\* other one: NoteOff and NoteOn of different pitches at one tick, earlier
\* than the tick of the sample
C25_Witness ==
    \E w \in MelodicWorkers :
        LET n == Len(midifile[w])
        IN  /\ pc[w] = "busy"
            /\ n >= 2
            /\ st[w].noteIsOn
            /\ midifile[w][n - 1].kind = "NoteOff"
            /\ midifile[w][n].kind = "NoteOn"
            /\ midifile[w][n].tick = midifile[w][n - 1].tick
            /\ midifile[w][n].pitch # midifile[w][n - 1].pitch
            /\ midifile[w][n].tick < st[w].currentTick

\* The clamp of the expiry block (endTick = nextPhaseTick when
\* noteStartTick + noteDuration >= nextPhaseTick) is never taken: the
\* phase-transition block of the same pass has set currentPhase to the
\* phase of currentTick, and the block is entered with
\* noteStartTick + noteDuration <= currentTick, so the note's end lies
\* below the next phase boundary whenever the block is reached.
ExpiryEndsInsidePhase ==
    \A w \in MelodicWorkers :
        pc[w] \in {"expLock", "expCS"} =>
            /\ st[w].noteStartTick + st[w].noteDuration <= st[w].currentTick
            /\ st[w].currentTick
                 < (st[w].currentPhase + 1)
                     * AdjustedTicksPerPhase(durationSec, numPhases)

\* the hits of slot `pos` of the pattern of `phase`: for each of kick,
\* snare and hi-hat set at the slot a NoteOn at stepTick with the slot's
\* velocity and a NoteOff ticksPerStep - 1 ticks later
ExpectedHits(phase, pos, stepTick) ==
    LET pattern == phase % numPhases
        hit(pitch) ==
            << NoteOn(stepTick, DRUM_CHANNEL, pitch, PatternVelocity(pos)),
               NoteOff(stepTick + ticksPerStep - 1, DRUM_CHANNEL, pitch) >>
    IN  (IF pos \in PatternKick(pattern) THEN hit(KICK) ELSE << >>)
     \o (IF pos \in PatternSnare(pattern) THEN hit(SNARE) ELSE << >>)
     \o (IF pos \in PatternHihat(pattern)
         THEN hit(IF pos % 8 = 0 THEN OPEN_HAT ELSE CLOSED_HAT) ELSE << >>)

\* C27: a pass of the rhythm worker reaches its step block iff the step
\* position of its tick differs from the one of the previous sample; the
\* block appends the hits set at that slot in the pattern of the current
\* phase, at the tick quantized to the grid, and pattern hits are appended
\* nowhere else
C27_HitsOnStepChange ==
    [][LET l == st[0]
           pos == StepPosition(l.currentTick)
           stepTick == (l.currentTick \div ticksPerStep) * ticksPerStep
           n == Len(midifile[0])
       IN  /\ ( pc[0] \in {"loop", "phaseCS"}
                /\ pc'[0] \in {"stepLock", "busy"} )
                  => ( pc'[0] = "stepLock"
                       <=> (st'[0].currentTick \div ticksPerStep) % 16
                              # l.currentStep )
           /\ ( pc[0] = "stepCS" /\ pc'[0] # "stepCS" )
                  => /\ pos = (l.currentTick \div ticksPerStep) % 16
                     /\ pos # l.currentStep
                     /\ midifile'[0] = midifile[0]
                            \o ExpectedHits(l.currentPhase, pos, stepTick)
                     /\ st'[0].currentStep = pos
           /\ ( sortCalls' = sortCalls /\ pc[0] # "stepCS" )
                  => \A i \in (n + 1)..Len(midifile'[0]) :
                         IsNote(midifile'[0][i])
                             => midifile'[0][i].pitch = CRASH]_vars

\* the rhythm worker has taken a sample in the step of its previous sample,
\* between two points of the grid, after it appended the hits of that step
\* at the point of the grid
C27_Witness ==
    /\ pc[0] = "busy"
    /\ st[0].currentStep = StepPosition(st[0].currentTick)
    /\ st[0].currentStep > 0
    /\ st[0].currentTick % ticksPerStep # 0
    /\ Last(midifile[0]).kind = "NoteOff"
    /\ Last(midifile[0]).pitch # CRASH
    /\ Last(midifile[0]).tick
         = st[0].currentStep * ticksPerStep + ticksPerStep - 1
    /\ Last(midifile[0]).tick - ticksPerStep + 1 < st[0].currentTick - 200

\* C28: the 16 slots of the drum grid span one bar, 16 * ticksPerStep =
\* BEATS_PER_BAR * TPQ, a slot is a sixteenth note of TPQ / 4 ticks, and
\* the step position of a sample is the sixteenth of its bar the tick lies
\* in, so that it is 0 again at the start of every bar
C28_GridSpansOneBar ==
    \A w \in Tracks :
        ( /\ st[w].isDrumThread
          /\ pc[w] \in {"busy", "sleep"}
          /\ st[w].currentTick > 0 )
        => /\ 16 * ticksPerStep = BEATS_PER_BAR * TPQ
           /\ 4 * ticksPerStep = TPQ
           /\ st[w].currentStep
                = ((st[w].currentTick % (BEATS_PER_BAR * TPQ)) * 16)
                     \div (BEATS_PER_BAR * TPQ)

\* C29: once a worker has taken a sample its current phase lies in
\* 0 .. numPhases - 1, the indices of the drum patterns and snippets that
\* main builds for it, one per phase
C29_PhaseInRange ==
    \A w \in Workers :
        /\ st[w].currentPhase \in -1 .. (numPhases - 1)
        /\ midifile[w] # << >> =>
              /\ st[w].currentPhase >= 0
              /\ st[w].currentPhase <= numPhases - 1
              /\ st[w].currentPhase % numPhases = st[w].currentPhase

\* the rhythm worker, whose phases do not divide its ticks evenly, has
\* sampled a tick past the end of the last phase and stays in that phase
C29_Witness ==
    /\ numPhases >= 2
    /\ st[0].ticksPerPhase >= 2
    /\ st[0].currentTick \div st[0].ticksPerPhase >= numPhases
    /\ st[0].currentPhase = numPhases - 1
    /\ midifile[0] # << >>

\* C30: a melodic worker that reads running as true leaves its loop iff
\* the wall time since its start has reached adjustedTotalTicks /
\* (TPQ * TEMPO / 60) seconds, the rhythm worker iff it has reached
\* durationSec; a melodic worker goes on only with a tick below
\* adjustedTotalTicks and appends no NoteOn or NoteOff beyond it
C30_MelodicRunsAdjustedDuration ==
    [][\A w \in Tracks :
          LET ms == now - st[w].startWallTime
              total == AdjustedTotalTicks(durationSec, numPhases)
              leaves == pc'[w] \in {"exitLock", "finalLock"}
              n == Len(midifile[w])
          IN  /\ ( pc[w] = "loop" /\ pc'[w] # "loop" /\ running ) =>
                    IF st[w].isDrumThread
                    THEN leaves <=> ms >= 1000 * durationSec
                    ELSE /\ leaves <=> ms * TPQ * TEMPO >= total * 60000
                         /\ ~leaves => st'[w].currentTick < total
              /\ ~st[w].isDrumThread =>
                    \A i \in (n + 1)..Len(midifile'[w]) :
                        IsNote(midifile'[w][i])
                            => midifile'[w][i].tick <= total]_vars

\* a melodic worker has started a note at a sample later than the
\* requested duration, after the rhythm worker has left its loop
C30_Witness ==
    \E w \in MelodicWorkers :
        /\ pc[w] = "busy"
        /\ st[w].lastWallTime >= 1000 * durationSec
        /\ st[w].noteIsOn
        /\ st[w].noteStartTick > TotalTicks(durationSec)
        /\ pc[0] \in {"finalLock", "finalCS", "done"}

\* C31: at the end of every sampling iteration of a melodic worker (the
\* busy work and the sleep that close the pass), a sounding note implies
\* that the recorded previous scheduling signal is true:
\* noteIsOn => wasScheduled
C31_SoundingImpliesScheduled ==
    \A w \in MelodicWorkers :
        pc[w] \in {"busy", "sleep"} =>
            (st[w].noteIsOn => st[w].wasScheduled)

\* a pass that went through a phase change ends with a note sounding
C31_Witness ==
    \E w \in MelodicWorkers :
        /\ pc[w] = "busy"
        /\ st[w].noteIsOn
        /\ st[w].wasScheduled
        /\ st[w].currentPhase >= 1

\* the index of the NoteOn that the NoteOff at index j of events closes: the
\* last NoteOn before it
OpeningOf(events, j) ==
    CHOOSE i \in 0 .. j - 1 :
        /\ i > 0 => events[i].kind = "NoteOn"
        /\ \A k \in i + 1 .. j - 1 : events[k].kind # "NoteOn"
        /\ i = 0 => \A k \in 1 .. j - 1 : events[k].kind # "NoteOn"

\* C32: for every note a melodic worker plays, the NoteOff that closes it
\* (at a phase change, a scheduling drop, a duration expiry or the end of
\* the run) has a tick >= the tick of its NoteOn: no note has a negative
\* length
C32_NoNegativeLength ==
    sortCalls = 0 =>
        \A w \in MelodicWorkers :
            \A j \in DOMAIN midifile[w] :
                midifile[w][j].kind = "NoteOff" =>
                    LET i == OpeningOf(midifile[w], j)
                    IN  /\ i > 0
                        /\ midifile[w][i].pitch = midifile[w][j].pitch
                        /\ midifile[w][i].tick <= midifile[w][j].tick

\* a worker has returned after closing one note at a phase boundary and
\* another one at the aligned end of the run
C32_Witness ==
    /\ sortCalls = 0
    /\ \E w \in MelodicWorkers :
          /\ pc[w] = "done"
          /\ \E j, k \in DOMAIN midifile[w] :
                /\ j < k
                /\ midifile[w][j].kind = "NoteOff"
                /\ midifile[w][j].tick = AdjustedTicksPerPhase(durationSec,
                                                               numPhases)
                /\ midifile[w][j].tick > midifile[w][j - 1].tick
                /\ midifile[w][k].kind = "NoteOff"
                /\ midifile[w][k].tick = AdjustedTotalTicks(durationSec,
                                                            numPhases)
                /\ midifile[w][k].tick > midifile[w][k - 1].tick

\* C33: on every melodic track each NoteOn has a tick >= the tick of the
\* NoteOff appended just before it, so that after the final stable sort by
\* tick the notes of the track still alternate: the sorted order never
\* shows two NoteOns without a NoteOff between them
C33_SortKeepsAlternation ==
    \A w \in MelodicWorkers :
        /\ sortCalls = 0 =>
              \A j \in DOMAIN midifile[w] :
                  midifile[w][j].kind = "NoteOn" =>
                      \A i \in 1 .. j - 1 :
                          midifile[w][i].kind = "NoteOff"
                          => midifile[w][i].tick <= midifile[w][j].tick
        /\ sortCalls = 1 =>
              Alternates(NotesOn(midifile[w], Channel(w)))

\* the sorted track of a worker holds a NoteOff and the NoteOn of the next
\* note at one tick, where only the stability of the sort keeps their order
C33_Witness ==
    /\ sortCalls = 1
    /\ \E w \in MelodicWorkers :
          \E j \in DOMAIN midifile[w] :
              /\ j > 1
              /\ midifile[w][j].kind = "NoteOn"
              /\ midifile[w][j - 1].kind = "NoteOff"
              /\ midifile[w][j - 1].tick = midifile[w][j].tick

\* C34: a melodic worker that is sounding when it observes a phase change,
\* in a sample that reports scheduled = true, closes the note, resets the
\* recorded signal to unscheduled and so goes on, in the same pass, to the
\* scheduling-edge block; there it appends a NoteOn for note 0 of the new
\* phase's non-empty snippet at the current tick
C34_PhaseChangeRestartsNote ==
    [][\A w \in MelodicWorkers :
          /\ ( /\ pc[w] = "phaseCS"
               /\ pc'[w] # "phaseCS"
               /\ st[w].noteIsOn
               /\ st[w].isScheduled )
             => /\ pc'[w] = "schedLock"
                /\ ~st'[w].wasScheduled
                /\ ~st'[w].noteIsOn
                /\ Len(midifile'[w]) = Len(midifile[w]) + 2
                /\ midifile'[w][Len(midifile[w]) + 1].kind = "NoteOff"
                /\ IsPhaseMarker(Last(midifile'[w]))
          /\ ( /\ pc[w] = "schedCS"
               /\ pc'[w] # "schedCS"
               /\ st[w].isScheduled
               /\ IsPhaseMarker(Last(midifile[w]))
               /\ midifile[w][Len(midifile[w]) - 1].kind = "NoteOff"
               /\ snippets[w][st[w].currentPhase + 1].notes # << >> )
             => LET first == snippets[w][st[w].currentPhase + 1].notes[1]
                IN  /\ midifile'[w] =
                          Append(midifile[w],
                                 NoteOn(st[w].currentTick, Channel(w),
                                        first.pitch, first.velocity))
                    /\ st'[w].noteIsOn
                    /\ pc'[w] = "busy"
      ]_vars

\* the pass of a phase change has closed a note at the boundary, marked the
\* phase and started the first note of the new phase at the current tick,
\* after the boundary
C34_Witness ==
    \E w \in MelodicWorkers :
        /\ pc[w] = "busy"
        /\ st[w].noteIsOn
        /\ Len(midifile[w]) >= 3
        /\ LET n == Len(midifile[w])
           IN  /\ midifile[w][n].kind = "NoteOn"
               /\ midifile[w][n].tick = st[w].currentTick
               /\ IsPhaseMarker(midifile[w][n - 1])
               /\ midifile[w][n - 1].tick < st[w].currentTick
               /\ midifile[w][n - 2].kind = "NoteOff"
               /\ midifile[w][n - 2].tick = midifile[w][n - 1].tick

\* the events a worker passes to the timeline in the critical section it
\* is in
Appended(w) ==
    LET l == st[w]
        drumTpp == DrumTicksPerPhase(durationSec, numPhases)
        tpp == AdjustedTicksPerPhase(durationSec, numPhases)
    IN  CASE pc[w] = "nameCS" ->
                << IF l.isDrumThread THEN TrackName(0, "Drum Track", 0)
                                     ELSE TrackName(0, "Thread", w) >>
          [] pc[w] = "phaseCS" ->
                IF l.isDrumThread
                THEN DrumPhaseEvents(NewPhase(l.currentTick, drumTpp,
                                              numPhases), drumTpp)
                ELSE PhaseChange(l, snippets[w], tpp, numPhases,
                                 Channel(w)).events
          [] pc[w] = "stepCS" ->
                DrumHits(IF l.currentPhase < 0 THEN 0 ELSE l.currentPhase,
                         l.currentTick)
          [] pc[w] = "schedCS" ->
                SchedChange(l, snippets[w], tpp, Channel(w)).events
          [] pc[w] = "expCS" ->
                Expiry(l, snippets[w], tpp, Channel(w)).events
          [] pc[w] = "exitCS" ->
                ExitEvents(l, AdjustedTotalTicks(durationSec, numPhases),
                           Channel(w))
          [] pc[w] = "finalCS" ->
                << Marker(Max(l.currentTick,
                              IF l.isDrumThread
                              THEN TotalTicks(durationSec)
                              ELSE AdjustedTotalTicks(durationSec,
                                                      numPhases)),
                          IF l.isDrumThread THEN "Original End"
                                            ELSE "Aligned End", 0) >>
          [] OTHER -> << >>

\* C35: until the sort the timeline holds exactly what the workers
\* appended: a worker's critical section extends the worker's track by the
\* events it passes, in their order, and leaves every other track as it
\* is; no other step before the sort changes a track, so that once all
\* workers are joined nothing is lost, duplicated or reordered
C35_TimelineHoldsAppends ==
    [][ /\ \A w \in Tracks :
              (pc[w] \in CriticalPcs /\ pc'[w] # pc[w])
              => /\ midifile'[w] = midifile[w] \o Appended(w)
                 /\ \A t \in Workers \ {w} : midifile'[t] = midifile[t]
        /\ (midifile' # midifile /\ mainpc # "sort")
              => \E w \in Tracks : pc[w] \in CriticalPcs /\ pc'[w] # pc[w]
      ]_vars

\* all workers are joined, the sort is still to come, and the tracks of
\* two workers hold the notes they appended over the run
C35_Witness ==
    /\ mainpc = "sort"
    /\ threadCount = 2
    /\ \A w \in Tracks : NoteOnCount(midifile[w]) >= 2

\* an event that worker t appends: its notes are on t's channel, its track
\* name and its final marker are those of t's thread function
OwnEvent(t, e) ==
    CASE IsNote(e) -> e.channel = Channel(t)
      [] e.kind = "TrackName" ->
            IF t = 0 THEN e.text = "Drum Track"
                     ELSE e.text = "Thread" /\ e.num = t
      [] e.kind = "Marker" ->
            e.text \in {"Phase", IF t = 0 THEN "Original End"
                                          ELSE "Aligned End"}
      [] OTHER -> FALSE

\* C36: every event a worker appends goes to the worker's own track: a
\* track grows only in a critical section of its own worker and only by
\* that worker's events; and the snippet cursors of a worker are changed
\* only by a step of that worker
C36_OwnTrackOwnCursors ==
    [][ /\ \A t \in Workers :
              (midifile'[t] # midifile[t] /\ mainpc # "sort")
              => /\ pc[t] \in CriticalPcs
                 /\ pc'[t] # pc[t]
                 /\ Len(midifile'[t]) > Len(midifile[t])
                 /\ \A i \in Len(midifile[t]) + 1 .. Len(midifile'[t]) :
                        OwnEvent(t, midifile'[t][i])
        /\ \A w \in Workers :
              snippets'[w] # snippets[w]
              => /\ pc[w] \in {"phaseCS", "schedCS", "expCS"}
                 /\ pc'[w] # pc[w]
                 /\ \A v \in Workers \ {w} : pc'[v] = pc[v]
      ]_vars

\* both workers have appended notes, each to its own track, and the
\* melodic worker has moved a snippet cursor while the drum worker ran
C36_Witness ==
    /\ threadCount = 2
    /\ sortCalls = 0
    /\ NoteOnCount(midifile[0]) >= 1
    /\ NoteOnCount(midifile[1]) >= 1
    /\ \A t \in Tracks : \A i \in DOMAIN midifile[t] :
           IsNote(midifile[t][i]) => midifile[t][i].channel = Channel(t)
    /\ \E i \in DOMAIN snippets[1] : snippets[1][i].currentNoteIndex > 0

\* C37: a worker holds midi_mutex only inside a critical section: it does
\* not hold it where it acquires (no acquisition while holding), nor in its
\* sleep, its busy work or after its return; and a lock that is held is
\* released, so that the workers cannot deadlock on it
C37_LockDiscipline ==
    /\ [](\A w \in Workers : midi_mutex = w => pc[w] \in CriticalPcs)
    /\ (midi_mutex # NoOne) ~> (midi_mutex = NoOne)

\* a worker that has acquired and released the lock before waits for it at
\* its final marker while the other worker holds it
C37_Witness ==
    \E w, v \in Workers :
        /\ w # v
        /\ pc[w] = "finalLock"
        /\ Len(midifile[w]) >= 3
        /\ midi_mutex = v
        /\ pc[v] \in CriticalPcs

\* the indices of the pattern hits of the rhythm track: its NoteOns other
\* than the crash cymbal of a phase transition
PatternHits(events) ==
    {i \in DOMAIN events :
        events[i].kind = "NoteOn" /\ events[i].pitch # CRASH}

\* C38: the step ticks at which the rhythm worker appends pattern hits are
\* multiples of ticksPerStep and increase over the run: a later hit is at
\* a later step tick, or is another instrument of the same step, so the
\* hits of one grid step are appended at most once
C38_StepTicksIncrease ==
    sortCalls = 0 =>
        LET events == midifile[0]
            hits == PatternHits(events)
        IN  /\ \A i \in hits : events[i].tick % ticksPerStep = 0
            /\ \A i, j \in hits :
                  i < j =>
                      \/ events[i].tick < events[j].tick
                      \/ /\ events[i].tick = events[j].tick
                         /\ events[i].pitch # events[j].pitch

\* the rhythm worker has sampled one step of the grid twice: its sample is
\* further into the step than the clock advances at a time, so the sample
\* before it was in the same step; the hits of that step and of an earlier
\* step are on the track
C38_Witness ==
    /\ sortCalls = 0
    /\ pc[0] = "busy"
    /\ \A dt \in FineSteps :
           st[0].currentTick % ticksPerStep > TickOfMs(dt)
    /\ st[0].currentStep = StepPosition(st[0].currentTick)
    /\ LET events == midifile[0]
           hits == PatternHits(events)
       IN  /\ \E i, j \in hits : events[i].tick < events[j].tick
           /\ \E i \in hits :
                 events[i].tick = StepTick(st[0].currentTick)

====
